---- MODULE Spec2Model ----
(***************************************************************************)
(* Limit order book of micromatch::core (src/src/core/orderbook.cpp):      *)
(* PriceLevelImpl, OrderBookImpl and the Order / Trade records of          *)
(* core/order.hpp.  Every public operation of OrderBookImpl is one action; *)
(* the operations themselves are operators over a book value, written      *)
(* statement by statement after the C++.                                   *)
(***************************************************************************)
EXTENDS Integers, Sequences, FiniteSets, TLC

\* ------------------------------------------------------------------ bounds
MaxOrderId == 3      \* order ids offered by callers: 1..MaxOrderId
MaxPrice == 2        \* positive prices offered by callers: 1..MaxPrice
QtyMod == 3          \* modulus of the quantity type (uint32_t, scaled down)
MaxTradeId == 2      \* the model stops matching once this many trades exist

OrderIds == 1..MaxOrderId
Prices == 1..MaxPrice
PriceInputs == {0 - 1, 0} \cup Prices
Quantities == 0..(QtyMod - 1)
Sides == {"BUY", "SELL"}
NullPtr == 0

Min(a, b) == IF a <= b THEN a ELSE b
Restrict(f, S) == [x \in S |-> f[x]]
Put(f, k, v) == [x \in (DOMAIN f) \cup {k} |-> IF x = k THEN v ELSE f[x]]
Erase(f, k) == Restrict(f, (DOMAIN f) \ {k})
Range(s) == {s[i] : i \in DOMAIN s}

\* uint32_t arithmetic (unsigned, wraps)
Add32(a, b) == (a + b) % QtyMod
Sub32(a, b) == (a - b + QtyMod) % QtyMod

\* ------------------------------------------------------------ Order, Trade
\* Order(id, symbol, px, qty, s): a limit order, status NEW
Order(id, px, qty, s) ==
    [order_id |-> id, price |-> px, quantity |-> qty, side |-> s,
     status |-> "NEW"]

\* Trade(id, buy, sell, exec_price, qty): the ids are taken from the first
\* and the second Order argument
Trade(id, buy, sell, exec_price, qty) ==
    [trade_id |-> id, buy_order_id |-> buy.order_id,
     sell_order_id |-> sell.order_id, price |-> exec_price,
     quantity |-> qty]

\* -------------------------------------------------------------- PriceLevel
\* A level is its FIFO queue of order pointers and its uint32_t volume.  An
\* order pointer is named by the id of the order it points to; heap maps the
\* pointers to the Order objects (the pointees of the shared_ptr's).
PriceLevelImpl == [orders |-> <<>>, total_volume |-> 0]

\* variant: the new order is queued at the front
level_add_order_front(level, order) ==
    [orders |-> <<order.order_id>> \o level.orders,
     total_volume |-> Add32(level.total_volume, order.quantity)]

level_add_order(level, order) ==
    [orders |-> Append(level.orders, order.order_id),
     total_volume |-> Add32(level.total_volume, order.quantity)]

peek_front(level) ==
    IF level.orders = <<>> THEN NullPtr ELSE Head(level.orders)

remove_front_after_fill(level, filled_quantity) ==
    IF level.orders # <<>>
    THEN [orders |-> Tail(level.orders),
          total_volume |-> Sub32(level.total_volume, filled_quantity)]
    ELSE level

RECURSIVE remove_order_loop(_, _, _, _, _)
remove_order_loop(orders, temp_queue, total_volume, order_id, heap) ==
    IF orders = <<>>
    THEN [orders |-> temp_queue, total_volume |-> total_volume]
    ELSE LET order == heap[Head(orders)]
         IN IF order.order_id = order_id
            THEN remove_order_loop(Tail(orders), temp_queue,
                                   Sub32(total_volume, order.quantity),
                                   order_id, heap)
            ELSE remove_order_loop(Tail(orders),
                                   Append(temp_queue, Head(orders)),
                                   total_volume, order_id, heap)

\* variant: the scan finds no order
remove_order_none(level, order_id, heap) == level

\* variant: the orders kept are put back in reverse
RECURSIVE Reverse(_)
Reverse(seq) ==
    IF seq = <<>> THEN <<>> ELSE Append(Reverse(Tail(seq)), Head(seq))
remove_order_reversing(level, order_id, heap) ==
    LET r == remove_order_loop(level.orders, <<>>, level.total_volume,
                               order_id, heap)
    IN [r EXCEPT !.orders = Reverse(@)]

remove_order(level, order_id, heap) ==
    remove_order_loop(level.orders, <<>>, level.total_volume, order_id, heap)

update_volume_after_partial_fill(level, filled_quantity) ==
    [level EXCEPT !.total_volume = Sub32(@, filled_quantity)]

\* variant: a level never reports that it is empty
level_empty_never(level) == FALSE
level_empty(level) == level.orders = <<>>
order_count(level) == Len(level.orders)
volume(level) == level.total_volume

\* --------------------------------------------------------------- OrderBook
\* buy_levels is ordered by std::greater, sell_levels by std::less:
\* begin() is the highest bid and the lowest ask.
buy_begin(levels) ==
    CHOOSE p \in DOMAIN levels : \A q \in DOMAIN levels : q <= p
\* variant: the asks are walked from the highest price
sell_begin_worst(levels) ==
    CHOOSE p \in DOMAIN levels : \A q \in DOMAIN levels : q <= p
sell_begin(levels) ==
    CHOOSE p \in DOMAIN levels : \A q \in DOMAIN levels : p <= q

\* variant: the trade is priced at the incoming order's price
generate_trade_at_aggressor(next_trade_id, aggressive_order, passive_order, quantity, price) ==
    Trade(next_trade_id, aggressive_order, passive_order,
          aggressive_order.price, quantity)

generate_trade(next_trade_id, aggressive_order, passive_order, quantity, price) ==
    Trade(next_trade_id, aggressive_order, passive_order, price, quantity)

\* variant: a trade takes the whole incoming quantity
match_quantity_of_incoming(incoming, resting) == incoming.quantity
match_quantity_of(incoming, resting) ==
    Min(incoming.quantity, resting.quantity)

\* variant: a buy priced exactly at the best ask is left resting
buy_crosses_strict(buy_order, best_ask_price) ==
    buy_order.price > best_ask_price
buy_crosses(buy_order, best_ask_price) == ~(buy_order.price < best_ask_price)
sell_crosses(sell_order, best_bid_price) == ~(sell_order.price > best_bid_price)

\* A book value B: the members of OrderBookImpl, the heap of Order objects
\* they share, and arrival (history, read by no operation): for each side
\* and price at which orders rest, the ids of those orders in the order in
\* which add_to_book was called for them.
Without(seq, id) == SelectSeq(seq, LAMBDA i : i # id)
ArrivalErase(arr, id) ==
    LET keep == {k \in DOMAIN arr : Without(arr[k], id) # <<>>}
    IN [k \in keep |-> Without(arr[k], id)]
ArrivalAppend(arr, order) ==
    LET a == ArrivalErase(arr, order.order_id)
        k == <<order.side, order.price>>
    IN Put(a, k, Append(IF k \in DOMAIN a THEN a[k] ELSE <<>>, order.order_id))

RECURSIVE match_buy_order(_, _, _)
match_buy_order(B, buy_order, trades) ==
    IF ~(buy_order.quantity > 0 /\ DOMAIN B.sell_levels # {})
    THEN [book |-> B, order |-> buy_order, trades |-> trades]
    ELSE
    LET best_ask_price == sell_begin(B.sell_levels)
        best_ask_level == B.sell_levels[best_ask_price]
    IN
    IF ~buy_crosses(buy_order, best_ask_price)
    THEN [book |-> B, order |-> buy_order, trades |-> trades]
    ELSE IF peek_front(best_ask_level) = NullPtr
    THEN match_buy_order(
             [B EXCEPT !.sell_levels = Erase(@, best_ask_price)],
             buy_order, trades)
    ELSE
    LET ptr == peek_front(best_ask_level)
        sell_order == B.heap[ptr]
        match_quantity == match_quantity_of(buy_order, sell_order)
        trade == generate_trade(B.next_trade_id, buy_order, sell_order,
                                match_quantity, best_ask_price)
        buy2 == [buy_order EXCEPT !.quantity = Sub32(@, match_quantity)]
        sell2 == [sell_order EXCEPT !.quantity = Sub32(@, match_quantity)]
        heap2 == [B.heap EXCEPT ![ptr] = sell2]
        B2 == [B EXCEPT !.heap = heap2, !.next_trade_id = @ + 1]
        B3 == IF sell2.quantity = 0
              THEN LET level2 == remove_front_after_fill(best_ask_level,
                                                         match_quantity)
                   IN [B2 EXCEPT
                        !.order_map = Erase(@, sell2.order_id),
                        !.arrival = ArrivalErase(@, sell2.order_id),
                        !.sell_levels =
                            IF level_empty(level2)
                            THEN Erase(@, best_ask_price)
                            ELSE [@ EXCEPT ![best_ask_price] = level2]]
              ELSE [B2 EXCEPT !.sell_levels[best_ask_price] =
                        update_volume_after_partial_fill(@, match_quantity)]
    IN match_buy_order(B3, buy2, Append(trades, trade))

RECURSIVE match_sell_order(_, _, _)
match_sell_order(B, sell_order, trades) ==
    IF ~(sell_order.quantity > 0 /\ DOMAIN B.buy_levels # {})
    THEN [book |-> B, order |-> sell_order, trades |-> trades]
    ELSE
    LET best_bid_price == buy_begin(B.buy_levels)
        best_bid_level == B.buy_levels[best_bid_price]
    IN
    IF ~sell_crosses(sell_order, best_bid_price)
    THEN [book |-> B, order |-> sell_order, trades |-> trades]
    ELSE IF peek_front(best_bid_level) = NullPtr
    THEN match_sell_order(
             [B EXCEPT !.buy_levels = Erase(@, best_bid_price)],
             sell_order, trades)
    ELSE
    LET ptr == peek_front(best_bid_level)
        buy_order == B.heap[ptr]
        match_quantity == match_quantity_of(sell_order, buy_order)
        trade == generate_trade(B.next_trade_id, sell_order, buy_order,
                                match_quantity, best_bid_price)
        sell2 == [sell_order EXCEPT !.quantity = Sub32(@, match_quantity)]
        buy2 == [buy_order EXCEPT !.quantity = Sub32(@, match_quantity)]
        heap2 == [B.heap EXCEPT ![ptr] = buy2]
        B2 == [B EXCEPT !.heap = heap2, !.next_trade_id = @ + 1]
        B3 == IF buy2.quantity = 0
              THEN LET level2 == remove_front_after_fill(best_bid_level,
                                                         match_quantity)
                   IN [B2 EXCEPT
                        !.order_map = Erase(@, buy2.order_id),
                        !.arrival = ArrivalErase(@, buy2.order_id),
                        !.buy_levels =
                            IF level_empty(level2)
                            THEN Erase(@, best_bid_price)
                            ELSE [@ EXCEPT ![best_bid_price] = level2]]
              ELSE [B2 EXCEPT !.buy_levels[best_bid_price] =
                        update_volume_after_partial_fill(@, match_quantity)]
    IN match_sell_order(B3, sell2, Append(trades, trade))

\* levels[price] of std::map: the level, default-constructed when absent
level_at(levels, price) ==
    IF price \in DOMAIN levels THEN levels[price] ELSE PriceLevelImpl

\* variant: the residual is always queued on the bid side
add_to_book_buy_side(B, order) ==
    [B EXCEPT
       !.buy_levels = Put(@, order.price,
                          level_add_order(level_at(@, order.price), order)),
       !.heap = Put(@, order.order_id, order),
       !.order_map = Put(@, order.order_id, order.order_id),
       !.arrival = ArrivalAppend(@, order)]

add_to_book(B, order) ==
    LET B2 == IF order.side = "BUY"
              THEN [B EXCEPT !.buy_levels =
                       Put(@, order.price,
                           level_add_order(level_at(@, order.price), order))]
              ELSE [B EXCEPT !.sell_levels =
                       Put(@, order.price,
                           level_add_order(level_at(@, order.price), order))]
    IN [B2 EXCEPT
          !.heap = Put(@, order.order_id, order),
          !.order_map = Put(@, order.order_id, order.order_id),
          !.arrival = ArrivalAppend(@, order)]

\* the Order objects no shared_ptr refers to any more are destroyed
Referenced(B) ==
    Range(B.order_map)
    \cup UNION {Range(B.buy_levels[p].orders) : p \in DOMAIN B.buy_levels}
    \cup UNION {Range(B.sell_levels[p].orders) : p \in DOMAIN B.sell_levels}
Release(B) == [B EXCEPT !.heap = Restrict(@, (DOMAIN @) \cap Referenced(B))]

\* variant: the price is not validated
order_is_invalid_quantity_only(order) == order.quantity = 0
order_is_invalid(order) == order.quantity = 0 \/ order.price <= 0
order_is_duplicate(B, order) == order.order_id \in DOMAIN B.order_map

add_order(B, order) ==
    IF order_is_invalid(order)
    THEN [book |-> B, trades |-> <<>>, exit |-> "invalid"]
    ELSE IF order_is_duplicate(B, order)
    THEN [book |-> B, trades |-> <<>>, exit |-> "duplicate"]
    ELSE
    LET m == IF order.side = "BUY"
             THEN match_buy_order(B, order, <<>>)
             ELSE match_sell_order(B, order, <<>>)
        B2 == IF m.order.quantity > 0
              THEN add_to_book(m.book, m.order)
              ELSE m.book
    IN [book |-> Release(B2), trades |-> m.trades, exit |-> "matched"]

cancel_order(B, order_id) ==
    IF order_id \notin DOMAIN B.order_map
    THEN [book |-> B, ret |-> FALSE]
    ELSE
    LET order == B.heap[B.order_map[order_id]]
        B2 == [B EXCEPT !.order_map = Erase(@, order_id),
                        !.arrival = ArrivalErase(@, order_id)]
        B3 == IF order.side = "BUY"
              THEN IF order.price \in DOMAIN B2.buy_levels
                   THEN LET level2 == remove_order(B2.buy_levels[order.price],
                                                   order_id, B2.heap)
                        IN [B2 EXCEPT !.buy_levels =
                              IF level_empty(level2)
                              THEN Erase(@, order.price)
                              ELSE [@ EXCEPT ![order.price] = level2]]
                   ELSE B2
              ELSE IF order.price \in DOMAIN B2.sell_levels
                   THEN LET level2 == remove_order(B2.sell_levels[order.price],
                                                   order_id, B2.heap)
                        IN [B2 EXCEPT !.sell_levels =
                              IF level_empty(level2)
                              THEN Erase(@, order.price)
                              ELSE [@ EXCEPT ![order.price] = level2]]
                   ELSE B2
    IN [book |-> Release(B3), ret |-> TRUE]

\* ret is "nullopt" or "order"; order is the returned new_order; trades are
\* the trades of the inner add_order call, which modify_order discards
NoOrder == Order(0, 0, 0, "BUY")

modify_new_order(old_order, new_price, new_quantity) ==
    [old_order EXCEPT !.price = new_price, !.quantity = new_quantity]

\* variant: a modification that keeps the price is made in place, the order
\* keeping its place in the queue
modify_order_in_place(B, order_id, new_price, new_quantity) ==
    IF order_id \notin DOMAIN B.order_map
    THEN [book |-> B, ret |-> "nullopt", order |-> NoOrder, trades |-> <<>>]
    ELSE
    LET ptr == B.order_map[order_id]
        old_order == B.heap[ptr]
        new_order == modify_new_order(old_order, new_price, new_quantity)
    IN IF new_price = old_order.price /\ new_quantity > 0
       THEN LET B2 == [B EXCEPT !.heap[ptr] = new_order]
                B3 == IF old_order.side = "BUY"
                      THEN [B2 EXCEPT !.buy_levels[new_price].total_volume =
                              Add32(Sub32(@, old_order.quantity), new_quantity)]
                      ELSE [B2 EXCEPT !.sell_levels[new_price].total_volume =
                              Add32(Sub32(@, old_order.quantity), new_quantity)]
            IN [book |-> B3, ret |-> "order", order |-> new_order,
                trades |-> <<>>]
       ELSE LET c == cancel_order(B, order_id)
                a == add_order(c.book, new_order)
            IN [book |-> a.book, ret |-> "order", order |-> new_order,
                trades |-> a.trades]

modify_order(B, order_id, new_price, new_quantity) ==
    IF order_id \notin DOMAIN B.order_map
    THEN [book |-> B, ret |-> "nullopt", order |-> NoOrder, trades |-> <<>>]
    ELSE
    LET old_order == B.heap[B.order_map[order_id]]
        c == cancel_order(B, order_id)
    IN IF ~c.ret
       THEN [book |-> c.book, ret |-> "nullopt", order |-> NoOrder,
             trades |-> <<>>]
       ELSE LET new_order == modify_new_order(old_order, new_price,
                                              new_quantity)
                a == add_order(c.book, new_order)
            IN [book |-> a.book, ret |-> "order", order |-> new_order,
                trades |-> a.trades]

best_bid(B) == IF DOMAIN B.buy_levels = {} THEN NullPtr
               ELSE buy_begin(B.buy_levels)
best_ask(B) == IF DOMAIN B.sell_levels = {} THEN NullPtr
               ELSE sell_begin(B.sell_levels)

volume_at_price(B, price, side) ==
    IF side = "BUY"
    THEN IF price \in DOMAIN B.buy_levels
         THEN volume(B.buy_levels[price]) ELSE 0
    ELSE IF price \in DOMAIN B.sell_levels
         THEN volume(B.sell_levels[price]) ELSE 0

order_count_at_price(B, price, side) ==
    IF side = "BUY"
    THEN IF price \in DOMAIN B.buy_levels
         THEN order_count(B.buy_levels[price]) ELSE 0
    ELSE IF price \in DOMAIN B.sell_levels
         THEN order_count(B.sell_levels[price]) ELSE 0

total_orders(B) == Cardinality(DOMAIN B.order_map)

\* variant: clear() also restarts the trade id generator
clear_resetting_trade_ids(B) ==
    Release([B EXCEPT !.buy_levels = <<>>, !.sell_levels = <<>>,
                      !.order_map = <<>>, !.arrival = <<>>,
                      !.next_trade_id = 1])

clear(B) ==
    Release([B EXCEPT !.buy_levels = <<>>, !.sell_levels = <<>>,
                      !.order_map = <<>>, !.arrival = <<>>])

\* ------------------------------------------------------------------- state
VARIABLES
    buy_levels,     \* price -> level, the bids
    sell_levels,    \* price -> level, the asks
    order_map,      \* order id -> order pointer
    heap,           \* order pointer -> Order object
    next_trade_id,  \* trade id generator
    arrival,        \* <<side, price>> -> ids resting there, oldest first
    last,           \* the last call: operation, arguments, results
    spsc,           \* an SPSCQueue with its producer and its consumer
    mpmc,           \* an MPMCQueue with the threads that use it
    engine,         \* a MatchingEngineImpl with its threads
    feed,           \* a FeedSimulator with its threads
    detector,       \* an ArbitrageDetector with the threads that call it
    handler         \* a FeedHandler with its feeds, detector and engine

vars == <<buy_levels, sell_levels, order_map, heap, next_trade_id, arrival,
          last, spsc, mpmc, engine, feed, detector, handler>>

\* the value of a component that the program under study does not have
Absent == <<>>

Book ==
    [buy_levels |-> buy_levels, sell_levels |-> sell_levels,
     order_map |-> order_map, heap |-> heap,
     next_trade_id |-> next_trade_id, arrival |-> arrival]

BookNext ==
    [buy_levels |-> buy_levels', sell_levels |-> sell_levels',
     order_map |-> order_map', heap |-> heap',
     next_trade_id |-> next_trade_id', arrival |-> arrival']

SetBook(B) ==
    /\ buy_levels' = B.buy_levels
    /\ sell_levels' = B.sell_levels
    /\ order_map' = B.order_map
    /\ heap' = B.heap
    /\ next_trade_id' = B.next_trade_id
    /\ arrival' = B.arrival

\* last: the operation called last, its order id argument, the trades of
\* its add_order, the return statement it left by, and undo: whether it is a
\* cancel_order(id) called right after an add_order of an order with that
\* id that was accepted and returned no trades
Call(op, id, trades, ret, undo) ==
    [op |-> op, id |-> id, trades |-> trades, ret |-> ret, undo |-> undo]

Init ==
    /\ buy_levels = <<>>
    /\ sell_levels = <<>>
    /\ order_map = <<>>
    /\ heap = <<>>
    /\ next_trade_id = 1
    /\ arrival = <<>>
    /\ last = Call("none", 0, <<>>, "none", FALSE)
    /\ feed = Absent
    /\ detector = Absent
    /\ handler = Absent
    /\ spsc = Absent
    /\ mpmc = Absent
    /\ engine = Absent

AddOrder ==
    \E id \in OrderIds, s \in Sides, px \in PriceInputs, qty \in Quantities :
        LET r == add_order(Book, Order(id, px, qty, s))
        IN /\ r.book.next_trade_id <= MaxTradeId + 1
           /\ SetBook(r.book)
           /\ last' = Call("add", id, r.trades, r.exit, FALSE)
           /\ UNCHANGED <<spsc, mpmc, engine, feed, detector, handler>>

CancelOrder ==
    \E id \in OrderIds :
        LET r == cancel_order(Book, id)
        IN /\ SetBook(r.book)
           /\ last' = Call("cancel", id, <<>>,
                           IF r.ret THEN "true" ELSE "false",
                           /\ last.op = "add"
                           /\ last.id = id
                           /\ last.ret = "matched"
                           /\ last.trades = <<>>)
           /\ UNCHANGED <<spsc, mpmc, engine, feed, detector, handler>>

ModifyOrder ==
    \E id \in OrderIds, px \in PriceInputs, qty \in Quantities :
        LET r == modify_order(Book, id, px, qty)
        IN /\ r.book.next_trade_id <= MaxTradeId + 1
           /\ SetBook(r.book)
           /\ last' = Call("modify", id, r.trades, r.ret, FALSE)
           /\ UNCHANGED <<spsc, mpmc, engine, feed, detector, handler>>

Clear ==
    /\ SetBook(clear(Book))
    /\ last' = Call("clear", 0, <<>>, "none", FALSE)
    /\ UNCHANGED <<spsc, mpmc, engine, feed, detector, handler>>

Next == AddOrder \/ CancelOrder \/ ModifyOrder \/ Clear

Spec == Init /\ [][Next]_vars

\* ------------------------------------------------------------- properties
\* every order a caller can pass to add_order
AddCalls ==
    {Order(id, px, qty, s) :
        id \in OrderIds, px \in PriceInputs, qty \in Quantities, s \in Sides}

\* the valid orders with an id that is not resting in B
FreshCalls(B) ==
    {o \in AddCalls :
        o.quantity > 0 /\ o.price > 0 /\ o.order_id \notin DOMAIN B.order_map}

RECURSIVE SumQuantity(_)
SumQuantity(trades) ==
    IF trades = <<>> THEN 0
    ELSE Head(trades).quantity + SumQuantity(Tail(trades))

\* the resting order of a trade of add_order(o): the one that is not o
PassiveId(o, trade) ==
    IF trade.buy_order_id = o.order_id THEN trade.sell_order_id
    ELSE trade.buy_order_id

\* the quantity that the trades before the i-th one took from resting order id
TakenBefore(o, trades, i, id) ==
    SumQuantity(SelectSeq(SubSeq(trades, 1, i - 1),
                          LAMBDA t : PassiveId(o, t) = id))
Taken(o, trades, id) == TakenBefore(o, trades, Len(trades) + 1, id)

IndexOf(seq, x) == CHOOSE i \in DOMAIN seq : seq[i] = x

C2_PriceTimePriority ==
    \A o \in FreshCalls(Book) :
        LET r == add_order(Book, o)
        IN \A i \in DOMAIN r.trades :
             LET pid == PassiveId(o, r.trades[i])
                 key == <<heap[pid].side, heap[pid].price>>
                 queue == arrival[key]
             IN \A j \in 1..(IndexOf(queue, pid) - 1) :
                  TakenBefore(o, r.trades, i, queue[j]) = heap[queue[j]].quantity

\* an incoming order was filled by the oldest order of a level and a younger
\* order of that level still rests
C2_Witness ==
    /\ last.op = "add"
    /\ Len(last.trades) = 1
    /\ last.id \notin DOMAIN order_map
    /\ PassiveId([order_id |-> last.id], last.trades[1]) \notin DOMAIN order_map
    /\ \E k \in DOMAIN arrival : k[2] = last.trades[1].price

\* C3: the trades of one add_order call sum to at most the incoming
\* quantity, none is priced beyond the incoming limit (above it for a buy,
\* below it for a sell), and their prices never improve along the list
\* (non-decreasing for a buy, non-increasing for a sell).
C3_TradesWithinOrder ==
    \A o \in FreshCalls(Book) :
        LET trades == add_order(Book, o).trades
        IN /\ SumQuantity(trades) <= o.quantity
           /\ \A i \in DOMAIN trades :
                IF o.side = "BUY" THEN trades[i].price <= o.price
                ELSE trades[i].price >= o.price
           /\ \A i, j \in DOMAIN trades :
                i < j => IF o.side = "BUY"
                         THEN trades[i].price <= trades[j].price
                         ELSE trades[i].price >= trades[j].price

\* an order has swept two price levels
C3_Witness ==
    /\ last.op = "add"
    /\ Len(last.trades) = 2
    /\ last.trades[1].price # last.trades[2].price

\* C4: every trade is priced at the price of the resting order it consumes.
C4_PassivePrice ==
    \A o \in FreshCalls(Book) :
        LET trades == add_order(Book, o).trades
        IN \A i \in DOMAIN trades :
             trades[i].price = heap[PassiveId(o, trades[i])].price

\* an order traded at a price other than its own and its residual rests
C4_Witness ==
    /\ last.op = "add"
    /\ last.trades # <<>>
    /\ last.id \in DOMAIN order_map
    /\ heap[order_map[last.id]].price # last.trades[1].price

Levels(B, side) == IF side = "BUY" THEN B.buy_levels ELSE B.sell_levels

\* how often pointer ptr is queued in the levels of one side
RECURSIVE CountIn(_, _)
CountIn(seq, x) ==
    IF seq = <<>> THEN 0
    ELSE (IF Head(seq) = x THEN 1 ELSE 0) + CountIn(Tail(seq), x)
\* the sum of the values of a function with a finite domain
RECURSIVE SumFn(_)
SumFn(f) ==
    IF DOMAIN f = {} THEN 0
    ELSE LET x == CHOOSE y \in DOMAIN f : TRUE
         IN f[x] + SumFn(Restrict(f, (DOMAIN f) \ {x}))
QueuedCount(B, ptr) ==
    SumFn([p \in DOMAIN B.buy_levels |-> CountIn(B.buy_levels[p].orders, ptr)])
    + SumFn([p \in DOMAIN B.sell_levels |-> CountIn(B.sell_levels[p].orders, ptr)])

\* C5: after add_order(o) of a valid order with a fresh id, the quantity the
\* trades did not cover rests at o.price on o's side, once, with exactly that
\* quantity; o is absent when the trades cover it; and every resting order
\* the trades consumed completely has left the book.
C5_ResidualRests ==
    \A o \in FreshCalls(Book) :
        LET r == add_order(Book, o)
            B2 == r.book
            rest == o.quantity - SumQuantity(r.trades)
        IN /\ rest > 0 =>
                /\ o.order_id \in DOMAIN B2.order_map
                /\ B2.heap[B2.order_map[o.order_id]] = [o EXCEPT !.quantity = rest]
                /\ o.price \in DOMAIN Levels(B2, o.side)
                /\ CountIn(Levels(B2, o.side)[o.price].orders,
                           B2.order_map[o.order_id]) = 1
                /\ QueuedCount(B2, B2.order_map[o.order_id]) = 1
           /\ rest = 0 =>
                /\ o.order_id \notin DOMAIN B2.order_map
                /\ QueuedCount(B2, o.order_id) = 0
           /\ \A id \in DOMAIN order_map :
                Taken(o, r.trades, id) = heap[order_map[id]].quantity =>
                    /\ id \notin DOMAIN B2.order_map
                    /\ QueuedCount(B2, order_map[id]) = 0

\* an order traded, consumed the resting order, and its residual rests
C5_Witness ==
    /\ last.op = "add"
    /\ last.trades # <<>>
    /\ last.id \in DOMAIN order_map
    /\ PassiveId([order_id |-> last.id], last.trades[1]) \notin DOMAIN order_map

\* C6: each level's total volume is the sum of the remaining quantities of
\* the orders queued at it, volume_at_price reports it, and the level
\* volumes of both sides sum to the remaining quantities of all indexed
\* orders.
LevelSum(B, level) ==
    SumFn([i \in DOMAIN level.orders |-> B.heap[level.orders[i]].quantity])
C6_LevelVolume ==
    /\ \A side \in Sides : \A p \in DOMAIN Levels(Book, side) :
         /\ Levels(Book, side)[p].total_volume
                = LevelSum(Book, Levels(Book, side)[p])
         /\ volume_at_price(Book, p, side)
                = LevelSum(Book, Levels(Book, side)[p])
    /\ SumFn([p \in DOMAIN buy_levels |-> buy_levels[p].total_volume])
         + SumFn([p \in DOMAIN sell_levels |-> sell_levels[p].total_volume])
       = SumFn([id \in DOMAIN order_map |-> heap[order_map[id]].quantity])

\* C7: every indexed id maps to an order with that id, queued exactly once,
\* in the level of its price on the map of its side; every queued order is
\* indexed under its id; total_orders() is the number of queued orders.
C7_IndexMatchesLevels ==
    /\ \A id \in DOMAIN order_map :
         LET ptr == order_map[id]
             o == heap[ptr]
         IN /\ o.order_id = id
            /\ QueuedCount(Book, ptr) = 1
            /\ o.price \in DOMAIN Levels(Book, o.side)
            /\ CountIn(Levels(Book, o.side)[o.price].orders, ptr) = 1
    /\ \A side \in Sides : \A p \in DOMAIN Levels(Book, side) :
         \A ptr \in Range(Levels(Book, side)[p].orders) :
            /\ heap[ptr].order_id \in DOMAIN order_map
            /\ order_map[heap[ptr].order_id] = ptr
    /\ total_orders(Book)
         = SumFn([p \in DOMAIN buy_levels |-> Len(buy_levels[p].orders)])
           + SumFn([p \in DOMAIN sell_levels |-> Len(sell_levels[p].orders)])

\* an order was cancelled out of a book that still holds two orders
C7_Witness ==
    /\ last.op = "cancel"
    /\ last.ret = "true"
    /\ total_orders(Book) >= 2

\* C8: add_order of an order with quantity 0, with price <= 0, or with the
\* id of a resting order returns no trades and leaves the book as it was.
C8_RejectedAddChangesNothing ==
    \A o \in AddCalls :
        (o.quantity = 0 \/ o.price <= 0 \/ o.order_id \in DOMAIN order_map)
            => LET r == add_order(Book, o)
               IN r.trades = <<>> /\ r.book = Book

\* an add_order with the id of a resting order was rejected
C8_Witness ==
    /\ last.op = "add"
    /\ last.ret = "duplicate"
    /\ last.id \in DOMAIN order_map
    /\ DOMAIN buy_levels # {}
    /\ DOMAIN sell_levels # {}

\* C9 as claimed: for any order o, add_order(o) followed by
\* cancel_order(o.id) leaves the book as it was before the add.
C9_AddCancelRestores ==
    \A o \in AddCalls :
        cancel_order(add_order(Book, o).book, o.order_id).book = Book

\* C9 as amended: the same for an order o whose id is not resting in the book
\* and whose add_order returns no trades.
C9_AddCancelRestoresUnmatched ==
    \A o \in AddCalls :
        (o.order_id \notin DOMAIN order_map /\ add_order(Book, o).trades = <<>>)
            => cancel_order(add_order(Book, o).book, o.order_id).book = Book

\* an order was added without a trade and cancelled by the next call, out
\* of a book that holds other orders
C9_Witness ==
    /\ last.op = "cancel"
    /\ last.undo
    /\ last.ret = "true"
    /\ total_orders(Book) >= 1

\* C10: modify_order(id, p, q) on a resting order leaves the book that
\* cancel_order(id) followed by add_order of an order with the same id and
\* side, price p and quantity q leaves; when the order rests afterwards it is
\* the last of its level's queue, behind the orders that rested there;
\* modify_order of an id that is not resting returns none and changes nothing.
C10_ModifyIsCancelAdd ==
    \A id \in OrderIds, px \in PriceInputs, qty \in Quantities :
        LET m == modify_order(Book, id, px, qty)
        IN IF id \in DOMAIN order_map
           THEN LET side == heap[order_map[id]].side
                    c == cancel_order(Book, id)
                    a == add_order(c.book, Order(id, px, qty, side))
                    before == IF px \in DOMAIN Levels(c.book, side)
                              THEN Levels(c.book, side)[px].orders ELSE <<>>
                IN /\ m.ret = "order"
                   /\ m.book = a.book
                   /\ m.trades = a.trades
                   /\ id \in DOMAIN m.book.order_map =>
                        Levels(m.book, side)[px].orders
                            = Append(before, m.book.order_map[id])
           ELSE m.ret = "nullopt" /\ m.book = Book

\* a modified order rests again, queued behind another order of its level
C10_Witness ==
    /\ last.op = "modify"
    /\ last.ret = "order"
    /\ last.id \in DOMAIN order_map
    /\ LET o == heap[order_map[last.id]]
           queue == Levels(Book, o.side)[o.price].orders
       IN Len(queue) >= 2 /\ queue[Len(queue)] = order_map[last.id]

\* C11: cancel_order(id) returns true exactly when id is resting. It then
\* removes that order and nothing else: the id leaves the index, the volume
\* of its level drops by the order's remaining quantity and the order count
\* by one, the level is dropped when it becomes empty, the other orders of
\* the level keep their relative order, and every other level is as it was.
\* When it returns false the book is unchanged.
C11_CancelRemovesOnlyThat ==
    \A id \in OrderIds :
        LET c == cancel_order(Book, id)
        IN IF id \in DOMAIN order_map
           THEN LET o == heap[order_map[id]]
                    side == o.side
                    other == IF side = "BUY" THEN "SELL" ELSE "BUY"
                    others == Without(Levels(Book, side)[o.price].orders,
                                      order_map[id])
                IN /\ c.ret
                   /\ c.book.order_map = Erase(order_map, id)
                   /\ volume_at_price(c.book, o.price, side)
                        = volume_at_price(Book, o.price, side) - o.quantity
                   /\ order_count_at_price(c.book, o.price, side)
                        = order_count_at_price(Book, o.price, side) - 1
                   /\ (o.price \in DOMAIN Levels(c.book, side)) = (others # <<>>)
                   /\ others # <<>> =>
                        Levels(c.book, side)[o.price].orders = others
                   /\ Erase(Levels(c.book, side), o.price)
                        = Erase(Levels(Book, side), o.price)
                   /\ Levels(c.book, other) = Levels(Book, other)
                   /\ \A i \in DOMAIN c.book.order_map :
                        c.book.heap[c.book.order_map[i]] = heap[order_map[i]]
                   /\ c.book.next_trade_id = next_trade_id
           ELSE ~c.ret /\ c.book = Book

\* what C11 says apart from the volume, with the volume in the arithmetic
\* of uint32_t: this part holds in every reachable book
CancelRemovesOnlyThatMod32 ==
    \A id \in OrderIds :
        LET c == cancel_order(Book, id)
        IN IF id \in DOMAIN order_map
           THEN LET o == heap[order_map[id]]
                    side == o.side
                    other == IF side = "BUY" THEN "SELL" ELSE "BUY"
                    others == Without(Levels(Book, side)[o.price].orders,
                                      order_map[id])
                IN /\ c.ret
                   /\ c.book.order_map = Erase(order_map, id)
                   /\ others # <<>> =>
                        /\ Levels(c.book, side)[o.price].orders = others
                        /\ volume_at_price(c.book, o.price, side)
                             = Sub32(volume_at_price(Book, o.price, side),
                                     o.quantity)
                   /\ order_count_at_price(c.book, o.price, side)
                        = order_count_at_price(Book, o.price, side) - 1
                   /\ (o.price \in DOMAIN Levels(c.book, side)) = (others # <<>>)
                   /\ Erase(Levels(c.book, side), o.price)
                        = Erase(Levels(Book, side), o.price)
                   /\ Levels(c.book, other) = Levels(Book, other)
                   /\ \A i \in DOMAIN c.book.order_map :
                        c.book.heap[c.book.order_map[i]] = heap[order_map[i]]
                   /\ c.book.next_trade_id = next_trade_id
           ELSE ~c.ret /\ c.book = Book

\* C12: in every trade of add_order(o), buy_order_id is the id of the order
\* on the Buy side and sell_order_id the id of the order on the Sell side,
\* whichever of the two, o or the resting order, was the aggressor.
SideOfId(o, id) ==
    IF id = o.order_id THEN o.side
    ELSE IF id \in DOMAIN order_map THEN heap[order_map[id]].side
    ELSE "NONE"
C12_TradeSides ==
    \A o \in FreshCalls(Book) :
        LET trades == add_order(Book, o).trades
        IN \A i \in DOMAIN trades :
             /\ SideOfId(o, trades[i].buy_order_id) = "BUY"
             /\ SideOfId(o, trades[i].sell_order_id) = "SELL"

\* C13: trade ids are strictly increasing in the order the trades are
\* emitted, across add_order and modify_order calls, and no id is used
\* twice, also after clear(): the trades of a call carry the consecutive ids
\* that start at the generator's value, every call leaves the generator
\* behind the last id it gave out, and no call moves it back.
C13_TradeIdsIncrease ==
    [][/\ next_trade_id' = next_trade_id + Len(last'.trades)
       /\ \A i \in DOMAIN last'.trades :
            last'.trades[i].trade_id = next_trade_id + i - 1]_vars

\* clear() was called on a book that had emitted trades, and the generator
\* kept its value
C13_Witness ==
    /\ last.op = "clear"
    /\ next_trade_id > 1

\* ================================================================ SPSCQueue
\* A queue object Q: nodes maps the addresses of the live Node objects to
\* their fields, head_, tail_, cached_head_ and cached_tail_ are the members.
\* Every operator below is one step of enqueue or dequeue between two
\* accesses to shared memory; loc is the record of the caller's locals.
MaxItems == 3
MaxValue == 2
Values == 1..MaxValue
NodeIds == 1..(MaxItems + 1)

Node(value) == [next |-> NullPtr, data |-> value]

\* SPSCQueue(): one dummy node, at any address
SPSCQueue(dummy) ==
    [nodes |-> (dummy :> Node(0)), head_ |-> dummy, tail_ |-> dummy,
     cached_head_ |-> dummy, cached_tail_ |-> dummy, uaf |-> FALSE]

\* an access through a pointer to a node that has been deleted
Dangling(Q, ptr) == ptr \notin DOMAIN Q.nodes

\* enqueue, first step: new_node = new Node(value) at a free address, then
\* cached_tail_->next.store(new_node, release)
spsc_enqueue_link(Q, new_node, value) ==
    IF Dangling(Q, Q.cached_tail_)
    THEN [Q EXCEPT !.uaf = TRUE]
    ELSE [Q EXCEPT
            !.nodes = Put([@ EXCEPT ![Q.cached_tail_].next = new_node],
                          new_node, Node(value))]

\* enqueue, second step: cached_tail_ = new_node; tail_.store(new_node)
spsc_enqueue_publish(Q, new_node) ==
    [Q EXCEPT !.cached_tail_ = new_node, !.tail_ = new_node]

\* dequeue, first step: head = cached_head_; next = head->next.load(acquire)
spsc_dequeue_load(Q) ==
    IF Dangling(Q, Q.cached_head_)
    THEN [queue |-> [Q EXCEPT !.uaf = TRUE], head |-> Q.cached_head_,
          next |-> NullPtr]
    ELSE [queue |-> Q, head |-> Q.cached_head_,
          next |-> Q.nodes[Q.cached_head_].next]

\* dequeue, the branch of next == nullptr: head = head_.load(acquire); when
\* it is cached_head_ the queue is empty, else the cache is refreshed and
\* next is loaded again
spsc_dequeue_reload(Q) ==
    IF Q.head_ = Q.cached_head_
    THEN [queue |-> Q, head |-> Q.head_, next |-> NullPtr]
    ELSE IF Dangling(Q, Q.head_)
    THEN [queue |-> [Q EXCEPT !.uaf = TRUE, !.cached_head_ = Q.head_],
          head |-> Q.head_, next |-> NullPtr]
    ELSE [queue |-> [Q EXCEPT !.cached_head_ = Q.head_], head |-> Q.head_,
          next |-> Q.nodes[Q.head_].next]

\* variant: the value is taken from the node being retired
spsc_dequeue_data_of_head(Q, head, next) == Q.nodes[head].data

\* dequeue: T data = std::move(next->data)
spsc_dequeue_data(Q, head, next) == Q.nodes[next].data

\* dequeue: head_.store(next, release); cached_head_ = next
spsc_dequeue_advance(Q, next) ==
    [Q EXCEPT !.head_ = next, !.cached_head_ = next]

\* dequeue: delete head
spsc_dequeue_delete(Q, head) ==
    [Q EXCEPT !.nodes = Erase(@, head)]

\* ---- one producer thread and one consumer thread on one queue
\* spsc = [queue, p_pc, p_node, c_pc, c_head, c_next, c_data,
\*         enq, deq, c_ret, c_seen]
\* enq: the values enqueue was called with, in call order; deq: the values
\* dequeue returned, in return order; c_ret: what the last dequeue returned;
\* c_seen: the number of values that had been linked when that dequeue made
\* its first load
SPSCInit ==
    /\ buy_levels = <<>> /\ sell_levels = <<>> /\ order_map = <<>>
    /\ heap = <<>> /\ next_trade_id = 1 /\ arrival = <<>>
    /\ last = Call("none", 0, <<>>, "none", FALSE)
    /\ feed = Absent
    /\ detector = Absent
    /\ handler = Absent
    /\ mpmc = Absent
    /\ engine = Absent
    /\ \E dummy \in NodeIds :
         spsc = [queue |-> SPSCQueue(dummy),
                 p_pc |-> "idle", p_node |-> NullPtr,
                 c_pc |-> "idle", c_head |-> NullPtr, c_next |-> NullPtr,
                 c_data |-> 0,
                 enq |-> <<>>, deq |-> <<>>, c_ret |-> "never", c_seen |-> 0]

SPSCFrame ==
    UNCHANGED <<buy_levels, sell_levels, order_map, heap, next_trade_id,
                arrival, last, mpmc, engine, feed, detector, handler>>

SPSCEnqueueLink ==
    /\ spsc.p_pc = "idle"
    /\ Len(spsc.enq) < MaxItems
    /\ \E value \in Values, new_node \in NodeIds \ DOMAIN spsc.queue.nodes :
         spsc' = [spsc EXCEPT
                    !.queue = spsc_enqueue_link(@, new_node, value),
                    !.p_node = new_node,
                    !.p_pc = "publish",
                    !.enq = Append(@, value)]
    /\ SPSCFrame

SPSCEnqueuePublish ==
    /\ spsc.p_pc = "publish"
    /\ spsc' = [spsc EXCEPT
                  !.queue = spsc_enqueue_publish(@, spsc.p_node),
                  !.p_pc = "idle"]
    /\ SPSCFrame

SPSCDequeueLoad ==
    /\ spsc.c_pc = "idle"
    /\ LET r == spsc_dequeue_load(spsc.queue)
       IN spsc' = [spsc EXCEPT
                     !.queue = r.queue, !.c_head = r.head, !.c_next = r.next,
                     !.c_seen = Len(spsc.enq),
                     !.c_ret = "running",
                     !.c_pc = IF r.next = NullPtr THEN "reload" ELSE "move"]
    /\ SPSCFrame

SPSCDequeueReload ==
    /\ spsc.c_pc = "reload"
    /\ LET r == spsc_dequeue_reload(spsc.queue)
       IN spsc' = [spsc EXCEPT
                     !.queue = r.queue, !.c_head = r.head, !.c_next = r.next,
                     !.c_ret = IF r.next = NullPtr THEN "none" ELSE @,
                     !.c_pc = IF r.next = NullPtr THEN "idle" ELSE "move"]
    /\ SPSCFrame

SPSCDequeueMove ==
    /\ spsc.c_pc = "move"
    /\ spsc' = [spsc EXCEPT
                  !.c_data = IF Dangling(spsc.queue, spsc.c_next)
                                \/ Dangling(spsc.queue, spsc.c_head)
                             THEN 0
                             ELSE spsc_dequeue_data(spsc.queue, spsc.c_head,
                                                    spsc.c_next),
                  !.queue.uaf = @ \/ Dangling(spsc.queue, spsc.c_next),
                  !.c_pc = "advance"]
    /\ SPSCFrame

SPSCDequeueAdvance ==
    /\ spsc.c_pc = "advance"
    /\ spsc' = [spsc EXCEPT
                  !.queue = spsc_dequeue_advance(@, spsc.c_next),
                  !.c_pc = "delete"]
    /\ SPSCFrame

SPSCDequeueDelete ==
    /\ spsc.c_pc = "delete"
    /\ spsc' = [spsc EXCEPT
                  !.queue = spsc_dequeue_delete(@, spsc.c_head),
                  !.deq = Append(@, spsc.c_data),
                  !.c_ret = "value",
                  !.c_pc = "idle"]
    /\ SPSCFrame

SPSCProducer == SPSCEnqueueLink \/ SPSCEnqueuePublish
SPSCConsumer ==
    \/ SPSCDequeueLoad
    \/ SPSCDequeueReload
    \/ SPSCDequeueMove
    \/ SPSCDequeueAdvance
    \/ SPSCDequeueDelete

SPSCNext == SPSCProducer \/ SPSCConsumer

\* the consumer thread calls dequeue again and again and is scheduled
SpecSPSC == SPSCInit /\ [][SPSCNext]_vars /\ WF_vars(SPSCConsumer)

IsPrefix(a, b) == Len(a) <= Len(b) /\ a = SubSeq(b, 1, Len(a))

\* C14: with one producer and one consumer running concurrently, the values
\* dequeue has returned are at every moment a prefix of the values enqueued,
\* in enqueue order; no deleted node is accessed; a dequeue returns none
\* only if every value linked before its first load had been returned
\* already (the queue was empty), and returns a value whenever one was
\* linked and not yet returned; and once the producer has stopped, the
\* consumer's repeated dequeue calls return every enqueued value.
SPSCSafe ==
    /\ IsPrefix(spsc.deq, spsc.enq)
    /\ ~spsc.queue.uaf
    /\ spsc.c_ret = "none" => spsc.c_seen = Len(spsc.deq)
    /\ spsc.c_ret = "value" => spsc.c_seen >= Len(spsc.deq)
    /\ (spsc.c_pc = "reload") => spsc.c_seen = Len(spsc.deq)
SPSCProducerStopped == spsc.p_pc = "idle" /\ Len(spsc.enq) = MaxItems
C14_SPSCFifo ==
    /\ []SPSCSafe
    /\ SPSCProducerStopped ~> (spsc.deq = spsc.enq)

\* all the values were enqueued and returned, and a later dequeue found the
\* queue empty
C14_Witness ==
    /\ Len(spsc.deq) = MaxItems
    /\ spsc.deq = spsc.enq
    /\ spsc.c_ret = "none"

\* ================================================================ MPMCQueue
\* A queue object Q: Size is the template argument, buffer the ring of
\* cells, enqueue_pos_ and dequeue_pos_ the two positions. The operators are
\* the steps of try_enqueue and try_dequeue between accesses to shared
\* memory.
MaxSize == 2
MaxCalls == 2
IsPowerOfTwo(n) == \E k \in 0..n : 2 ^ k = n
\* the sizes the static_assert of the class accepts, with a cell to index
Sizes == {n \in 1..MaxSize : IsPowerOfTwo(n)}

Cell(i) == [sequence |-> i, data |-> 0]

MPMCQueue(Size) ==
    [Size |-> Size, buffer |-> [i \in 0..(Size - 1) |-> Cell(i)],
     enqueue_pos_ |-> 0, dequeue_pos_ |-> 0]

\* pos & MASK, MASK = Size - 1, Size a power of two
cell_index(Q, pos) == pos % Q.Size

\* diff = (intptr_t)seq - (intptr_t)pos
enqueue_diff(Q, pos) == Q.buffer[cell_index(Q, pos)].sequence - pos
\* diff = (intptr_t)seq - (intptr_t)(pos + 1)
dequeue_diff(Q, pos) == Q.buffer[cell_index(Q, pos)].sequence - (pos + 1)

\* enqueue_pos_.compare_exchange_weak(pos, pos + 1): a failure loads the
\* current value into pos
cas_enqueue_pos(Q, pos) ==
    IF Q.enqueue_pos_ = pos
    THEN [queue |-> [Q EXCEPT !.enqueue_pos_ = pos + 1], ok |-> TRUE,
          pos |-> pos]
    ELSE [queue |-> Q, ok |-> FALSE, pos |-> Q.enqueue_pos_]
cas_dequeue_pos(Q, pos) ==
    IF Q.dequeue_pos_ = pos
    THEN [queue |-> [Q EXCEPT !.dequeue_pos_ = pos + 1], ok |-> TRUE,
          pos |-> pos]
    ELSE [queue |-> Q, ok |-> FALSE, pos |-> Q.dequeue_pos_]

\* cell.data = std::forward<U>(value)
write_cell(Q, pos, value) ==
    [Q EXCEPT !.buffer[cell_index(Q, pos)].data = value]
\* cell.sequence.store(pos + 1, release)
publish_enqueue(Q, pos) ==
    [Q EXCEPT !.buffer[cell_index(Q, pos)].sequence = pos + 1]
\* T data = std::move(cell.data)
read_cell(Q, pos) == Q.buffer[cell_index(Q, pos)].data

\* cell.sequence.store(pos + Size, release)
publish_dequeue(Q, pos) ==
    [Q EXCEPT !.buffer[cell_index(Q, pos)].sequence = pos + Q.Size]

\* try_enqueue and try_dequeue run alone, from the load of the position to
\* the return. ret "hang": the loop reloads the position it already has and
\* no other thread is there to change it, so the call never returns.
RECURSIVE try_enqueue_loop(_, _, _)
try_enqueue_loop(Q, pos, value) ==
    LET diff == enqueue_diff(Q, pos)
    IN IF diff = 0
       THEN LET c == cas_enqueue_pos(Q, pos)
            IN IF c.ok
               THEN [queue |-> publish_enqueue(write_cell(c.queue, pos, value),
                                               pos),
                     ret |-> "true"]
               ELSE try_enqueue_loop(Q, c.pos, value)
       ELSE IF diff < 0
       THEN [queue |-> Q, ret |-> "false"]
       ELSE IF Q.enqueue_pos_ = pos
       THEN [queue |-> Q, ret |-> "hang"]
       ELSE try_enqueue_loop(Q, Q.enqueue_pos_, value)
try_enqueue(Q, value) == try_enqueue_loop(Q, Q.enqueue_pos_, value)

RECURSIVE try_dequeue_loop(_, _)
try_dequeue_loop(Q, pos) ==
    LET diff == dequeue_diff(Q, pos)
    IN IF diff = 0
       THEN LET c == cas_dequeue_pos(Q, pos)
            IN IF c.ok
               THEN [queue |-> publish_dequeue(c.queue, pos),
                     ret |-> "value", data |-> read_cell(c.queue, pos)]
               ELSE try_dequeue_loop(Q, c.pos)
       ELSE IF diff < 0
       THEN [queue |-> Q, ret |-> "nullopt", data |-> 0]
       ELSE IF Q.dequeue_pos_ = pos
       THEN [queue |-> Q, ret |-> "hang", data |-> 0]
       ELSE try_dequeue_loop(Q, Q.dequeue_pos_)
try_dequeue(Q) == try_dequeue_loop(Q, Q.dequeue_pos_)

\* enqueue(value, max_retries) and dequeue(max_retries) run alone; attempts
\* counts the calls of try_enqueue and try_dequeue they make
MaxRetries == 2
RECURSIVE enqueue_loop(_, _, _, _)
enqueue_loop(Q, value, i, max_retries) ==
    IF i < max_retries
    THEN LET r == try_enqueue(Q, value)
         IN IF r.ret = "false"
            THEN enqueue_loop(Q, value, i + 1, max_retries)
            ELSE [queue |-> r.queue, ret |-> r.ret, attempts |-> i + 1]
    ELSE [queue |-> Q, ret |-> "false", attempts |-> i]
enqueue(Q, value, max_retries) == enqueue_loop(Q, value, 0, max_retries)

RECURSIVE dequeue_loop(_, _, _)
dequeue_loop(Q, i, max_retries) ==
    IF i < max_retries
    THEN LET r == try_dequeue(Q)
         IN IF r.ret = "nullopt"
            THEN dequeue_loop(Q, i + 1, max_retries)
            ELSE [queue |-> r.queue, ret |-> r.ret, data |-> r.data,
                  attempts |-> i + 1]
    ELSE [queue |-> Q, ret |-> "nullopt", data |-> 0, attempts |-> i]
dequeue(Q, max_retries) == dequeue_loop(Q, 0, max_retries)

\* ---- producer threads calling try_enqueue and consumer threads calling
\* try_dequeue on one queue
\* mpmc = [queue, threads, put, got]
\* threads[t] = [pc, pos, value, calls], the locals being reset when the
\* call returns; put: the values whose try_enqueue
\* returned true; got: the values try_dequeue returned, in return order
Producers == {"p1", "p2"}
Consumers == {"c1", "c2"}
Threads == Producers \cup Consumers

\* the value of the n-th try_enqueue call of producer t: no two calls pass
\* the same value
ValueOf(t, n) == (IF t = "p1" THEN 0 ELSE MaxCalls) + n

Local(pc, pos, value, calls) ==
    [pc |-> pc, pos |-> pos, value |-> value, calls |-> calls]

MPMCFrame ==
    UNCHANGED <<buy_levels, sell_levels, order_map, heap, next_trade_id,
                arrival, last, spsc, engine, feed, detector, handler>>

MPMCInit ==
    /\ buy_levels = <<>> /\ sell_levels = <<>> /\ order_map = <<>>
    /\ heap = <<>> /\ next_trade_id = 1 /\ arrival = <<>>
    /\ last = Call("none", 0, <<>>, "none", FALSE)
    /\ feed = Absent
    /\ detector = Absent
    /\ handler = Absent
    /\ spsc = Absent
    /\ engine = Absent
    /\ \E Size \in Sizes :
         mpmc = [queue |-> MPMCQueue(Size),
                 threads |-> [t \in Threads |-> Local("idle", 0, 0, 0)],
                 put |-> {}, got |-> <<>>]

\* size_t pos = enqueue_pos_.load(relaxed)
MPMCTryEnqueueCall(t) ==
    /\ t \in Producers
    /\ mpmc.threads[t].pc = "idle"
    /\ mpmc.threads[t].calls < MaxCalls
    /\ mpmc' = [mpmc EXCEPT
                  !.threads[t] = Local("load_seq", mpmc.queue.enqueue_pos_,
                                       ValueOf(t, @.calls + 1), @.calls + 1)]
    /\ MPMCFrame

\* seq = cell.sequence.load(acquire) and the three branches on diff
MPMCEnqueueLoadSeq(t) ==
    /\ t \in Producers
    /\ mpmc.threads[t].pc = "load_seq"
    /\ LET diff == enqueue_diff(mpmc.queue, mpmc.threads[t].pos)
       IN mpmc' = [mpmc EXCEPT
                     !.threads[t] =
                        IF diff = 0 THEN [@ EXCEPT !.pc = "cas"]
                        ELSE IF diff < 0 THEN Local("idle", 0, 0, @.calls)
                        ELSE [@ EXCEPT !.pos = mpmc.queue.enqueue_pos_]]
    /\ MPMCFrame

\* compare_exchange_weak: it succeeds, or fails and reloads pos; it may
\* also fail although the value compares equal
MPMCEnqueueCas(t) ==
    /\ t \in Producers
    /\ mpmc.threads[t].pc = "cas"
    /\ LET c == cas_enqueue_pos(mpmc.queue, mpmc.threads[t].pos)
       IN \/ mpmc' = [mpmc EXCEPT
                        !.queue = c.queue,
                        !.threads[t] =
                           IF c.ok THEN [@ EXCEPT !.pc = "write"]
                           ELSE [@ EXCEPT !.pc = "load_seq", !.pos = c.pos]]
          \/ /\ c.ok
             /\ mpmc' = [mpmc EXCEPT !.threads[t].pc = "load_seq"]
    /\ MPMCFrame

MPMCEnqueueWrite(t) ==
    /\ t \in Producers
    /\ mpmc.threads[t].pc = "write"
    /\ mpmc' = [mpmc EXCEPT
                  !.queue = write_cell(@, mpmc.threads[t].pos,
                                       mpmc.threads[t].value),
                  !.threads[t].pc = "publish"]
    /\ MPMCFrame

MPMCEnqueuePublish(t) ==
    /\ t \in Producers
    /\ mpmc.threads[t].pc = "publish"
    /\ mpmc' = [mpmc EXCEPT
                  !.queue = publish_enqueue(@, mpmc.threads[t].pos),
                  !.put = @ \cup {mpmc.threads[t].value},
                  !.threads[t] = Local("idle", 0, 0, @.calls)]
    /\ MPMCFrame

\* size_t pos = dequeue_pos_.load(relaxed)
MPMCTryDequeueCall(t) ==
    /\ t \in Consumers
    /\ mpmc.threads[t].pc = "idle"
    /\ mpmc.threads[t].calls < MaxCalls
    /\ mpmc' = [mpmc EXCEPT
                  !.threads[t] = Local("load_seq", mpmc.queue.dequeue_pos_,
                                       0, @.calls + 1)]
    /\ MPMCFrame

MPMCDequeueLoadSeq(t) ==
    /\ t \in Consumers
    /\ mpmc.threads[t].pc = "load_seq"
    /\ LET diff == dequeue_diff(mpmc.queue, mpmc.threads[t].pos)
       IN mpmc' = [mpmc EXCEPT
                     !.threads[t] =
                        IF diff = 0 THEN [@ EXCEPT !.pc = "cas"]
                        ELSE IF diff < 0 THEN Local("idle", 0, 0, @.calls)
                        ELSE [@ EXCEPT !.pos = mpmc.queue.dequeue_pos_]]
    /\ MPMCFrame

MPMCDequeueCas(t) ==
    /\ t \in Consumers
    /\ mpmc.threads[t].pc = "cas"
    /\ LET c == cas_dequeue_pos(mpmc.queue, mpmc.threads[t].pos)
       IN \/ mpmc' = [mpmc EXCEPT
                        !.queue = c.queue,
                        !.threads[t] =
                           IF c.ok THEN [@ EXCEPT !.pc = "read"]
                           ELSE [@ EXCEPT !.pc = "load_seq", !.pos = c.pos]]
          \/ /\ c.ok
             /\ mpmc' = [mpmc EXCEPT !.threads[t].pc = "load_seq"]
    /\ MPMCFrame

MPMCDequeueRead(t) ==
    /\ t \in Consumers
    /\ mpmc.threads[t].pc = "read"
    /\ mpmc' = [mpmc EXCEPT
                  !.threads[t].value = read_cell(mpmc.queue,
                                                 mpmc.threads[t].pos),
                  !.threads[t].pc = "publish"]
    /\ MPMCFrame

MPMCDequeuePublish(t) ==
    /\ t \in Consumers
    /\ mpmc.threads[t].pc = "publish"
    /\ mpmc' = [mpmc EXCEPT
                  !.queue = publish_dequeue(@, mpmc.threads[t].pos),
                  !.got = Append(@, mpmc.threads[t].value),
                  !.threads[t] = Local("idle", 0, 0, @.calls)]
    /\ MPMCFrame

MPMCNext ==
    \E t \in Threads :
        \/ MPMCTryEnqueueCall(t)
        \/ MPMCEnqueueLoadSeq(t)
        \/ MPMCEnqueueCas(t)
        \/ MPMCEnqueueWrite(t)
        \/ MPMCEnqueuePublish(t)
        \/ MPMCTryDequeueCall(t)
        \/ MPMCDequeueLoadSeq(t)
        \/ MPMCDequeueCas(t)
        \/ MPMCDequeueRead(t)
        \/ MPMCDequeuePublish(t)

SpecMPMC == MPMCInit /\ [][MPMCNext]_vars

\* no call is in flight
MPMCQuiescent == \A t \in Threads : mpmc.threads[t].pc = "idle"
\* the number of items stored when no call is in flight
MPMCStored == Cardinality(mpmc.put) - Len(mpmc.got)
\* the values that try_dequeue calls made one after the other return until
\* one of them returns none; a call that never returns contributes -1
RECURSIVE Drain(_)
Drain(Q) ==
    LET r == try_dequeue(Q)
    IN IF r.ret = "value" THEN <<r.data>> \o Drain(r.queue)
       ELSE IF r.ret = "hang" THEN <<0 - 1>>
       ELSE <<>>
NoDuplicates(seq) == \A i, j \in DOMAIN seq : seq[i] = seq[j] => i = j
\* consumer t is about to read a cell that producer u has reserved and not
\* published
ReadsUnfinishedCell(t, u) ==
    /\ mpmc.threads[t].pc = "read"
    /\ mpmc.threads[u].pc \in {"write", "publish"}
    /\ cell_index(mpmc.queue, mpmc.threads[t].pos)
         = cell_index(mpmc.queue, mpmc.threads[u].pos)
MPMCExactlyOnce ==
    /\ Range(mpmc.got) \subseteq mpmc.put
    /\ NoDuplicates(mpmc.got)
    /\ \A t \in Consumers, u \in Producers : ~ReadsUnfinishedCell(t, u)
    /\ MPMCQuiescent =>
         LET all == mpmc.got \o Drain(mpmc.queue)
         IN NoDuplicates(all) /\ Range(all) = mpmc.put

\* C15: with producers and consumers using one MPMCQueue concurrently, every
\* value try_dequeue returns was put by a try_enqueue that returned true, no
\* value is returned twice, no consumer reads a cell that a producer has not
\* finished writing, and when no call is in flight the values returned so
\* far together with the values a drain returns are exactly the values
\* successfully enqueued.
C15_MPMCExactlyOnce == MPMCExactlyOnce

\* the same for the queues of two cells and more: this holds
MPMCExactlyOnceFromSize2 == mpmc.queue.Size >= 2 => MPMCExactlyOnce

MPMCCapacity ==
    MPMCQuiescent =>
        LET Q == mpmc.queue
            d == try_dequeue(Q)
        IN /\ MPMCStored <= Q.Size
           /\ \A v \in Values :
                /\ (try_enqueue(Q, v).ret = "false") = (MPMCStored = Q.Size)
                /\ try_enqueue(Q, v).ret = "false" =>
                     try_enqueue(Q, v).queue = Q
                /\ try_enqueue(Q, v).ret # "hang"
                /\ MPMCStored = Q.Size =>
                     /\ d.ret = "value"
                     /\ try_enqueue(d.queue, v).ret = "true"
           /\ (d.ret = "nullopt") = (MPMCStored = 0)
           /\ d.ret = "nullopt" => d.queue = Q
           /\ d.ret # "hang"

\* C16: for an MPMCQueue of capacity N with no call in flight, try_enqueue
\* returns false exactly when N items are stored, and then changes nothing;
\* try_dequeue returns none exactly when no item is stored; the queue never
\* holds more than N items; and after one successful try_dequeue from a
\* full queue the next try_enqueue succeeds.
C16_MPMCCapacity == MPMCCapacity

\* the same for the queues of two cells and more: this holds
MPMCCapacityFromSize2 == mpmc.queue.Size >= 2 => MPMCCapacity

MPMCBlockingBounded ==
    MPMCQuiescent =>
        \A max_retries \in 0..MaxRetries :
            LET Q == mpmc.queue
                d == dequeue(Q, max_retries)
            IN /\ \A v \in Values :
                    LET e == enqueue(Q, v, max_retries)
                    IN /\ e.ret # "hang"
                       /\ e.attempts <= max_retries
                       /\ MPMCStored = Q.Size =>
                            /\ e.ret = "false"
                            /\ e.attempts = max_retries
                            /\ e.queue = Q
               /\ d.ret # "hang"
               /\ d.attempts <= max_retries
               /\ MPMCStored = 0 =>
                    /\ d.ret = "nullopt"
                    /\ d.attempts = max_retries
                    /\ d.queue = Q

\* C17: the blocking enqueue(value, max_retries) and dequeue(max_retries)
\* make at most max_retries attempts, and when the queue stays full,
\* respectively empty, they return false, respectively none, after exactly
\* that many attempts and leave the queue as it was.
C17_MPMCBlockingBounded == MPMCBlockingBounded

\* the same for the queues of two cells and more: this holds
MPMCBlockingBoundedFromSize2 == mpmc.queue.Size >= 2 => MPMCBlockingBounded

\* ======================================================= MatchingEngineImpl
\* The engine with one registered book at most, that of symbol 1, held in
\* the book variables; symbol 2 never has a book. A request is an
\* OrderRequest; the symbol_id of a NEW_ORDER request is that of its order,
\* a field the book never reads.
MaxRequests == 3
RegisteredSymbol == 1
UnknownSymbol == 2
Symbols == {RegisteredSymbol, UnknownSymbol}

new_order_request(order, symbol_id) ==
    [type |-> "NEW_ORDER", order |-> order, symbol_id |-> symbol_id,
     order_id |-> order.order_id, new_price |-> 0, new_quantity |-> 0]
cancel_order_request(symbol_id, order_id) ==
    [type |-> "CANCEL_ORDER", order |-> NoOrder, symbol_id |-> symbol_id,
     order_id |-> order_id, new_price |-> 0, new_quantity |-> 0]
modify_order_request(symbol_id, order_id, new_price, new_quantity) ==
    [type |-> "MODIFY_ORDER", order |-> NoOrder, symbol_id |-> symbol_id,
     order_id |-> order_id, new_price |-> new_price,
     new_quantity |-> new_quantity]

\* SPSCQueue::enqueue and SPSCQueue::dequeue run alone, as the engine's one
\* submitter and its worker call them; the new node takes the lowest free
\* address
spsc_enqueue(Q, value) ==
    LET free == {n \in 1..(MaxRequests + 2) : n \notin DOMAIN Q.nodes}
        new_node == CHOOSE n \in free : \A m \in free : n <= m
    IN spsc_enqueue_publish(spsc_enqueue_link(Q, new_node, value), new_node)
\* variant: the value returned is that of the node enqueued last
spsc_dequeue_newest(Q) ==
    LET l == spsc_dequeue_load(Q)
        r == IF l.next = NullPtr THEN spsc_dequeue_reload(l.queue) ELSE l
    IN IF r.next = NullPtr
       THEN [queue |-> r.queue, ret |-> "nullopt", data |-> 0]
       ELSE [queue |-> spsc_dequeue_delete(
                           spsc_dequeue_advance(r.queue, r.next), r.head),
             ret |-> "value",
             data |-> r.queue.nodes[r.queue.tail_].data]

spsc_dequeue(Q) ==
    LET l == spsc_dequeue_load(Q)
        r == IF l.next = NullPtr THEN spsc_dequeue_reload(l.queue) ELSE l
    IN IF r.next = NullPtr
       THEN [queue |-> r.queue, ret |-> "nullopt", data |-> 0]
       ELSE [queue |-> spsc_dequeue_delete(
                           spsc_dequeue_advance(r.queue, r.next), r.head),
             ret |-> "value",
             data |-> spsc_dequeue_data(r.queue, r.head, r.next)]

MatchingEngineStats ==
    [total_orders |-> 0, total_trades |-> 0, total_volume |-> 0,
     rejected_orders |-> 0, cancelled_orders |-> 0, modified_orders |-> 0]

\* the calls of the two callbacks, as the events they leave in the log
OrderEvent(order, accepted) ==
    [cb |-> "order", order_id |-> order.order_id, accepted |-> accepted]
TradeEvent(trade) == [cb |-> "trade", trade |-> trade]

\* the statistics after the loop over the trades of process_new_order
RECURSIVE count_trades(_, _)
count_trades(stats, trades) ==
    IF trades = <<>> THEN stats
    ELSE count_trades([stats EXCEPT
                         !.total_trades = @ + 1,
                         !.total_volume = @ + Head(trades).quantity],
                      Tail(trades))

\* variant: the trades are delivered before the order is acknowledged
new_order_events_trades_first(E, order, trades) ==
    (IF E.trade_callback_
     THEN [i \in DOMAIN trades |-> TradeEvent(trades[i])] ELSE <<>>)
    \o (IF E.order_callback_ THEN <<OrderEvent(order, TRUE)>> ELSE <<>>)

\* the callbacks process_new_order makes for an order its book has taken
new_order_events(E, order, trades) ==
    (IF E.order_callback_ THEN <<OrderEvent(order, TRUE)>> ELSE <<>>)
    \o (IF E.trade_callback_
        THEN [i \in DOMAIN trades |-> TradeEvent(trades[i])] ELSE <<>>)

\* variant: an order for a symbol without a book is dropped without a word
process_new_order_silent_reject(E, B, order, symbol_id) ==
    LET E1 == [E EXCEPT !.stats.total_orders = @ + 1]
    IN IF symbol_id \notin E.order_books_
       THEN [engine |-> E1, book |-> B, events |-> <<>>]
       ELSE LET r == add_order(B, order)
            IN [engine |-> [E1 EXCEPT !.stats = count_trades(@, r.trades)],
                book |-> r.book,
                events |-> new_order_events(E, order, r.trades)]

\* E: the engine's members; B: the book of RegisteredSymbol. The result is
\* the members, the book and the callbacks made, in order.
process_new_order(E, B, order, symbol_id) ==
    LET E1 == [E EXCEPT !.stats.total_orders = @ + 1]
    IN IF symbol_id \notin E.order_books_
       THEN [engine |-> [E1 EXCEPT !.stats.rejected_orders = @ + 1],
             book |-> B,
             events |-> IF E.order_callback_
                        THEN <<OrderEvent(order, FALSE)>> ELSE <<>>]
       ELSE LET r == add_order(B, order)
            IN [engine |-> [E1 EXCEPT !.stats = count_trades(@, r.trades)],
                book |-> r.book,
                events |-> new_order_events(E, order, r.trades)]

process_cancel_order(E, B, symbol_id, order_id) ==
    IF symbol_id \notin E.order_books_
    THEN [engine |-> E, book |-> B, events |-> <<>>]
    ELSE LET r == cancel_order(B, order_id)
         IN [engine |-> IF r.ret
                        THEN [E EXCEPT !.stats.cancelled_orders = @ + 1]
                        ELSE E,
             book |-> r.book, events |-> <<>>]

\* variant: a modification is counted only when the new order is valid
process_modify_order_valid_only(E, B, symbol_id, order_id, new_price, new_quantity) ==
    IF symbol_id \notin E.order_books_
    THEN [engine |-> E, book |-> B, events |-> <<>>]
    ELSE LET r == modify_order(B, order_id, new_price, new_quantity)
         IN [engine |-> IF r.ret = "order" /\ new_price > 0
                           /\ new_quantity > 0
                        THEN [E EXCEPT !.stats.modified_orders = @ + 1]
                        ELSE E,
             book |-> r.book, events |-> <<>>]

process_modify_order(E, B, symbol_id, order_id, new_price, new_quantity) ==
    IF symbol_id \notin E.order_books_
    THEN [engine |-> E, book |-> B, events |-> <<>>]
    ELSE LET r == modify_order(B, order_id, new_price, new_quantity)
         IN [engine |-> IF r.ret = "order"
                        THEN [E EXCEPT !.stats.modified_orders = @ + 1]
                        ELSE E,
             book |-> r.book, events |-> <<>>]

process_order_request(E, B, request) ==
    IF request.type = "NEW_ORDER"
    THEN process_new_order(E, B, request.order, request.symbol_id)
    ELSE IF request.type = "CANCEL_ORDER"
    THEN process_cancel_order(E, B, request.symbol_id, request.order_id)
    ELSE process_modify_order(E, B, request.symbol_id, request.order_id,
                              request.new_price, request.new_quantity)

\* variant: the worker returns as soon as running_ reads false
worker_loop_test_no_drain(running) == IF running THEN "dequeue" ELSE "done"

\* worker_loop: while (running_.load(acquire)) runs the body, and leaves to
\* the loop that drains the queue
worker_loop_test(running) == IF running THEN "dequeue" ELSE "drain"

\* ---- one control thread, one submitter thread and the worker thread. The
\* control thread runs the set-up of the engine's test fixture, that is
\* set_trade_callback, set_order_callback, register_symbol and start, and
\* then stop.
\* engine = the members order_books_ (the symbols that have a book),
\* order_callback_ and trade_callback_ (whether one is set), stats, running_
\* and order_queue_, and
\*   c_pc, s_pc, w_pc: where the control thread, the submitter and the
\*     worker are; s_req, w_req: the request in their hands; w_loop: the
\*     loop of worker_loop the worker is in; calls: the calls the submitter
\*     made that passed the running_ test; s_ret: how its last call ended;
\*   accepted: the requests enqueued, in order; processed: the requests the
\*     worker has processed, in order; log: the callbacks made, in order;
\*   at_stop, pending_at_stop: the number of requests that were enqueued,
\*     and of those not yet processed, when stop() was called
NoRequest == cancel_order_request(0, 0)
EngineQuantities == 1..(QtyMod - 1)
EnginePrices == {1}

\* the requests the submitter may pass in its n-th call: the new orders
\* carry the id n
NewOrderRequests(n) ==
    {new_order_request(Order(n, px, qty, s), RegisteredSymbol) :
        px \in EnginePrices, qty \in EngineQuantities, s \in Sides}
    \cup {new_order_request(Order(n, 1, 1, "BUY"), UnknownSymbol)}
CancelRequests(n) ==
    {cancel_order_request(RegisteredSymbol, id) : id \in 1..(n - 1)}
ModifyRequests(n) ==
    {modify_order_request(RegisteredSymbol, id, px, qty) :
        id \in 1..(n - 1), px \in EnginePrices, qty \in EngineQuantities}

EngineFrame == UNCHANGED <<last, spsc, mpmc, feed, detector, handler>>
BookFrame ==
    UNCHANGED <<buy_levels, sell_levels, order_map, heap, next_trade_id,
                arrival>>

EngineInit ==
    /\ buy_levels = <<>> /\ sell_levels = <<>> /\ order_map = <<>>
    /\ heap = <<>> /\ next_trade_id = 1 /\ arrival = <<>>
    /\ last = Call("none", 0, <<>>, "none", FALSE)
    /\ feed = Absent
    /\ detector = Absent
    /\ handler = Absent
    /\ spsc = Absent
    /\ mpmc = Absent
    /\ engine = [order_books_ |-> {}, order_callback_ |-> FALSE,
                 trade_callback_ |-> FALSE, stats |-> MatchingEngineStats,
                 running_ |-> FALSE, order_queue_ |-> SPSCQueue(1),
                 c_pc |-> "set_trade_callback", s_pc |-> "idle", w_pc |-> "none",
                 s_req |-> NoRequest, w_req |-> NoRequest,
                 w_loop |-> "none", calls |-> 0, s_ret |-> "none",
                 accepted |-> <<>>, processed |-> <<>>, log |-> <<>>,
                 at_stop |-> 0, pending_at_stop |-> 0]

EngineSetTradeCallback ==
    /\ engine.c_pc = "set_trade_callback"
    /\ engine' = [engine EXCEPT !.trade_callback_ = TRUE,
                                !.c_pc = "set_order_callback"]
    /\ BookFrame /\ EngineFrame

EngineSetOrderCallback ==
    /\ engine.c_pc = "set_order_callback"
    /\ engine' = [engine EXCEPT !.order_callback_ = TRUE,
                                !.c_pc = "register_symbol"]
    /\ BookFrame /\ EngineFrame

\* register_symbol(RegisteredSymbol): the symbol has no book yet
EngineRegisterSymbol ==
    /\ engine.c_pc = "register_symbol"
    /\ RegisteredSymbol \notin engine.order_books_
    /\ engine' = [engine EXCEPT !.order_books_ = @ \cup {RegisteredSymbol},
                                !.c_pc = "start"]
    /\ BookFrame /\ EngineFrame

\* start(): running_.exchange(true) ...
EngineStart ==
    /\ engine.c_pc = "start"
    /\ ~engine.running_
    /\ engine' = [engine EXCEPT !.running_ = TRUE, !.c_pc = "spawn"]
    /\ BookFrame /\ EngineFrame

\* ... and worker_thread_ = std::thread(worker_loop)
EngineSpawn ==
    /\ engine.c_pc = "spawn"
    /\ engine' = [engine EXCEPT !.w_pc = "test", !.c_pc = "started"]
    /\ BookFrame /\ EngineFrame

\* stop(): running_.exchange(false) ...
EngineStop ==
    /\ engine.c_pc = "started"
    /\ engine.running_
    /\ engine' = [engine EXCEPT
                    !.running_ = FALSE, !.c_pc = "join",
                    !.at_stop = Len(engine.accepted),
                    !.pending_at_stop = Len(engine.accepted)
                                          - Len(engine.processed)]
    /\ BookFrame /\ EngineFrame

\* ... and worker_thread_.join(), which returns when worker_loop has
EngineJoin ==
    /\ engine.c_pc = "join"
    /\ engine.w_pc = "done"
    /\ engine' = [engine EXCEPT !.c_pc = "stopped", !.w_pc = "joined"]
    /\ BookFrame /\ EngineFrame

\* variant: the call goes on to enqueue its request whether the engine runs
\* or not
check_running_never(E, request) ==
    [E EXCEPT !.s_pc = "enqueue", !.s_req = request, !.calls = @ + 1]

\* if (!running_) throw std::runtime_error(...), the first statement of
\* submit_order, cancel_order and modify_order
check_running(E, request) ==
    IF ~E.running_
    THEN [E EXCEPT !.s_ret = "error"]
    ELSE [E EXCEPT !.s_pc = "enqueue", !.s_req = request, !.calls = @ + 1]

\* submit_order, cancel_order, modify_order up to the test of running_: the
\* call throws, or goes on to enqueue its request
Submit(request) ==
    /\ engine.s_pc = "idle"
    /\ engine.calls < MaxRequests
    /\ engine' = check_running(engine, request)
    /\ BookFrame /\ EngineFrame

EngineSubmitOrder ==
    \E request \in NewOrderRequests(engine.calls + 1) : Submit(request)
EngineCancelOrder ==
    \E request \in CancelRequests(engine.calls + 1) : Submit(request)
EngineModifyOrder ==
    \E request \in ModifyRequests(engine.calls + 1) : Submit(request)

\* while (!order_queue_.enqueue(std::move(request))) yield: enqueue returns
\* true the first time
EngineEnqueue ==
    /\ engine.s_pc = "enqueue"
    /\ engine' = [engine EXCEPT
                    !.order_queue_ = spsc_enqueue(@, engine.s_req),
                    !.accepted = Append(@, engine.s_req),
                    !.s_req = NoRequest, !.s_pc = "idle", !.s_ret = "ok"]
    /\ BookFrame /\ EngineFrame

\* worker_loop: while (running_.load(acquire))
EngineWorkerTest ==
    /\ engine.w_pc = "test"
    /\ engine' = [engine EXCEPT !.w_pc = worker_loop_test(engine.running_)]
    /\ BookFrame /\ EngineFrame

\* the body of the first loop: dequeue, and sleep when there is no request
EngineWorkerDequeue ==
    /\ engine.w_pc = "dequeue"
    /\ LET r == spsc_dequeue(engine.order_queue_)
       IN engine' = IF r.ret = "value"
                    THEN [engine EXCEPT !.order_queue_ = r.queue,
                                        !.w_req = r.data, !.w_loop = "test",
                                        !.w_pc = "process"]
                    ELSE [engine EXCEPT !.order_queue_ = r.queue,
                                        !.w_pc = "test"]
    /\ BookFrame /\ EngineFrame

\* the second loop: while (auto request = order_queue_.dequeue())
EngineWorkerDrain ==
    /\ engine.w_pc = "drain"
    /\ LET r == spsc_dequeue(engine.order_queue_)
       IN engine' = IF r.ret = "value"
                    THEN [engine EXCEPT !.order_queue_ = r.queue,
                                        !.w_req = r.data, !.w_loop = "drain",
                                        !.w_pc = "process"]
                    ELSE [engine EXCEPT !.order_queue_ = r.queue,
                                        !.w_pc = "done"]
    /\ BookFrame /\ EngineFrame

\* process_order_request(*request), in either loop
EngineWorkerProcess ==
    /\ engine.w_pc = "process"
    /\ LET r == process_order_request(engine, Book, engine.w_req)
       IN /\ engine' = [r.engine EXCEPT
                          !.log = @ \o r.events,
                          !.processed = Append(@, engine.w_req),
                          !.w_req = NoRequest,
                          !.w_pc = engine.w_loop]
          /\ SetBook(r.book)
    /\ EngineFrame

EngineNext ==
    \/ EngineSetTradeCallback
    \/ EngineSetOrderCallback
    \/ EngineRegisterSymbol
    \/ EngineStart
    \/ EngineSpawn
    \/ EngineStop
    \/ EngineJoin
    \/ EngineSubmitOrder
    \/ EngineCancelOrder
    \/ EngineModifyOrder
    \/ EngineEnqueue
    \/ EngineWorkerTest
    \/ EngineWorkerDequeue
    \/ EngineWorkerDrain
    \/ EngineWorkerProcess

SpecEngine == EngineInit /\ [][EngineNext]_vars

\* C18: when stop() has returned, the worker has processed every request
\* that was enqueued before stop() was called, in the order of enqueueing;
\* at every moment the requests processed are a prefix of the requests
\* enqueued.
C18_StopDrains ==
    /\ IsPrefix(engine.processed, engine.accepted)
    /\ engine.c_pc = "stopped" =>
         /\ Len(engine.processed) >= engine.at_stop
         /\ SubSeq(engine.processed, 1, engine.at_stop)
              = SubSeq(engine.accepted, 1, engine.at_stop)

\* stop() was called with two requests waiting in the queue, and has
\* returned
C18_Witness ==
    /\ engine.c_pc = "stopped"
    /\ engine.pending_at_stop >= 2

\* how many times order_callback was called for the order with this id
OrderCallbackCount(id) ==
    Cardinality({i \in DOMAIN engine.log :
                    engine.log[i].cb = "order" /\ engine.log[i].order_id = id})

\* C19: order_callback is invoked exactly once for every new order whose
\* submit_order call returned without error, also when the order is
\* submitted while the control thread is calling stop(): never twice, and
\* once when stop() has returned and no submit_order call is in flight.
C19_OrderCallbackOnce ==
    \A i \in DOMAIN engine.accepted :
        engine.accepted[i].type = "NEW_ORDER" =>
            /\ OrderCallbackCount(engine.accepted[i].order_id) <= 1
            /\ (engine.c_pc = "stopped" /\ engine.s_pc = "idle") =>
                 OrderCallbackCount(engine.accepted[i].order_id) = 1

\* the callbacks that processing a NEW_ORDER request is to make: the order
\* callback, then one trade callback for each trade the book returns
ExpectedEvents(request) ==
    IF request.symbol_id \in engine.order_books_
    THEN LET trades == add_order(Book, request.order).trades
         IN <<OrderEvent(request.order, TRUE)>>
            \o [i \in DOMAIN trades |-> TradeEvent(trades[i])]
    ELSE <<OrderEvent(request.order, FALSE)>>

\* C20: the step in which the worker processes a NEW_ORDER request calls
\* order_callback(order, true) and then trade_callback once for each trade
\* the book returned for that order, in the order of the trades, and no
\* other step, in particular none that dequeues a request, makes a callback.
C20_TradesAfterOrderCallback ==
    [][/\ engine'.log # engine.log =>
            /\ engine.w_pc = "process"
            /\ engine.w_req.type = "NEW_ORDER"
       /\ (/\ engine.w_pc = "process"
           /\ engine'.w_pc # "process"
           /\ engine.w_req.type = "NEW_ORDER") =>
            engine'.log = engine.log \o ExpectedEvents(engine.w_req)]_vars

\* an order was acknowledged and its two trades were delivered
C20_Witness ==
    \E i \in DOMAIN engine.log :
        /\ i + 2 \in DOMAIN engine.log
        /\ engine.log[i].cb = "order"
        /\ engine.log[i].accepted
        /\ engine.log[i + 1].cb = "trade"
        /\ engine.log[i + 2].cb = "trade"
        /\ engine.log[i + 1].trade.trade_id < engine.log[i + 2].trade.trade_id

\* C21: a call of submit_order, cancel_order or modify_order made while
\* running_ is false, before start() or after stop(), ends with the runtime
\* error and does nothing else: the queue, the callbacks made, the counters
\* and the book are as they were.
C21_NotRunningThrows ==
    [][(/\ ~engine.running_
        /\ engine.s_pc = "idle"
        /\ <<engine.s_pc, engine.s_ret, engine.s_req, engine.calls>>'
             # <<engine.s_pc, engine.s_ret, engine.s_req, engine.calls>>) =>
            /\ engine' = [engine EXCEPT !.s_ret = "error"]
            /\ BookNext = Book]_vars

\* a call made after stop() has returned, with requests processed before,
\* has thrown
C21_Witness ==
    /\ engine.c_pc = "stopped"
    /\ engine.s_ret = "error"
    /\ Len(engine.processed) >= 1


\* ============================================ the worker and two books
\* The engine after the set-up of its test fixture (both callbacks set, two
\* symbols registered, started), one thread that submits requests and the
\* worker. Here engine = the members order_callback_, trade_callback_,
\* stats, running_, order_queue_, order_books_ (the registered symbols) and
\*   books: the book of each registered symbol;
\*   calls: the calls of the submitter; processed: the requests processed;
\*   w_req: the request the worker processed last, and callbacks: the
\*     callbacks it made for it, in order;
\*   sequential: the books and the statistics that result from applying the
\*     requests submitted so far one after the other, in submission order
OtherSymbol == 3
MaxPending == 2
RegisteredSymbols == {RegisteredSymbol, OtherSymbol}
RequestIds == 1..2
RequestPrices == 1..2

create_order_book ==
    [buy_levels |-> <<>>, sell_levels |-> <<>>, order_map |-> <<>>,
     heap |-> <<>>, next_trade_id |-> 1, arrival |-> <<>>]

\* the requests the submitter may pass: new orders that are valid, that
\* have zero quantity or price zero, for a registered symbol or not;
\* cancellations and modifications of the same ids
NewOrderMenu ==
    {new_order_request(Order(id, px, qty, s), sym) :
        id \in RequestIds, px \in RequestPrices, qty \in EngineQuantities,
        s \in Sides, sym \in RegisteredSymbols}
    \cup {new_order_request(Order(id, 1, 0, s), RegisteredSymbol) :
            id \in RequestIds, s \in Sides}
    \cup {new_order_request(Order(id, 0, 1, s), RegisteredSymbol) :
            id \in RequestIds, s \in Sides}
    \cup {new_order_request(Order(1, 1, 1, "BUY"), UnknownSymbol)}
CancelMenu ==
    {cancel_order_request(sym, id) :
        sym \in RegisteredSymbols \cup {UnknownSymbol}, id \in RequestIds}
ModifyMenu ==
    {modify_order_request(sym, id, px, qty) :
        sym \in RegisteredSymbols, id \in RequestIds,
        px \in RequestPrices, qty \in EngineQuantities}
    \cup {modify_order_request(RegisteredSymbol, id, 1, 0) :
            id \in RequestIds}
    \cup {modify_order_request(RegisteredSymbol, id, 0, 1) :
            id \in RequestIds}
    \cup {modify_order_request(UnknownSymbol, 1, 1, 1)}

\* the engine's books once the book of the request's symbol has been
\* replaced by the one process_order_request left
store_book(E, books, request, r) ==
    [engine |-> r.engine,
     books |-> IF request.symbol_id \in E.order_books_
               THEN [books EXCEPT ![request.symbol_id] = r.book]
               ELSE books,
     events |-> r.events]

\* process_order_request on the engine's members and its books: the book
\* of the request's symbol is the one the operation is applied to
apply_request(E, books, request) ==
    store_book(E, books, request,
               process_order_request(
                   E,
                   IF request.symbol_id \in E.order_books_
                   THEN books[request.symbol_id] ELSE create_order_book,
                   request))

Pending(Q) == Cardinality(DOMAIN Q.nodes) - 1

RequestsInit ==
    /\ buy_levels = <<>> /\ sell_levels = <<>> /\ order_map = <<>>
    /\ heap = <<>> /\ next_trade_id = 1 /\ arrival = <<>>
    /\ last = Call("none", 0, <<>>, "none", FALSE)
    /\ feed = Absent
    /\ detector = Absent
    /\ handler = Absent
    /\ spsc = Absent
    /\ mpmc = Absent
    /\ engine = [order_books_ |-> RegisteredSymbols,
                 books |-> [sym \in RegisteredSymbols |-> create_order_book],
                 order_callback_ |-> TRUE, trade_callback_ |-> TRUE,
                 stats |-> MatchingEngineStats, running_ |-> TRUE,
                 order_queue_ |-> SPSCQueue(1),
                 calls |-> 0, processed |-> 0,
                 w_req |-> NoRequest, callbacks |-> <<>>,
                 sequential |->
                     [books |-> [sym \in RegisteredSymbols |->
                                    create_order_book],
                      stats |-> MatchingEngineStats]]

\* the reference: the books and statistics after one more request
sequential_after(seq) == [books |-> seq.books, stats |-> seq.engine.stats]

\* submit_order, cancel_order, modify_order of a running engine
RequestsSubmit(request) ==
    /\ engine.calls < MaxRequests
    /\ Pending(engine.order_queue_) < MaxPending
    /\ engine.running_
    /\ engine' = [engine EXCEPT
                    !.order_queue_ = spsc_enqueue(@, request),
                    !.calls = @ + 1,
                    !.sequential =
                        sequential_after(
                            apply_request(
                                [engine EXCEPT
                                   !.stats = engine.sequential.stats],
                                engine.sequential.books, request))]
    /\ BookFrame /\ EngineFrame

RequestsSubmitOrder == \E request \in NewOrderMenu : RequestsSubmit(request)
RequestsCancelOrder == \E request \in CancelMenu : RequestsSubmit(request)
RequestsModifyOrder == \E request \in ModifyMenu : RequestsSubmit(request)

\* the engine after the worker has processed the request d.data it dequeued
after_request(E, d, r) ==
    [r.engine EXCEPT
       !.order_queue_ = d.queue,
       !.books = r.books,
       !.processed = @ + 1,
       !.w_req = d.data,
       !.callbacks = r.events]

worker_turn(E, d) == after_request(E, d, apply_request(E, E.books, d.data))

\* one turn of the loop of worker_loop that finds a request
RequestsWorker ==
    /\ spsc_dequeue(engine.order_queue_).ret = "value"
    /\ engine' = worker_turn(engine, spsc_dequeue(engine.order_queue_))
    /\ BookFrame /\ EngineFrame

RequestsNext ==
    \/ RequestsSubmitOrder
    \/ RequestsCancelOrder
    \/ RequestsModifyOrder
    \/ RequestsWorker

SpecRequests == RequestsInit /\ [][RequestsNext]_vars

RequestsTypeOK == engine.processed <= engine.calls


\* C22: when the worker processes a NEW_ORDER request whose symbol has no
\* book, it calls order_callback(order, false) and nothing else, adds one to
\* rejected_orders, counts no trade and leaves every book as it was; when
\* the symbol has a book, that book becomes what its add_order makes of it,
\* the other books are as they were, rejected_orders keeps its value and the
\* first callback is order_callback(order, true).
C22_UnregisteredRejected ==
    [][(/\ engine'.processed = engine.processed + 1
        /\ engine'.w_req.type = "NEW_ORDER") =>
          LET order == engine'.w_req.order
              sym == engine'.w_req.symbol_id
          IN IF sym \notin engine.order_books_
             THEN /\ engine'.callbacks = <<OrderEvent(order, FALSE)>>
                  /\ engine'.stats.rejected_orders
                       = engine.stats.rejected_orders + 1
                  /\ engine'.stats.total_trades = engine.stats.total_trades
                  /\ engine'.stats.total_volume = engine.stats.total_volume
                  /\ engine'.books = engine.books
             ELSE /\ engine'.books =
                       [engine.books EXCEPT
                          ![sym] = add_order(engine.books[sym], order).book]
                  /\ engine'.stats.rejected_orders
                       = engine.stats.rejected_orders
                  /\ engine'.callbacks # <<>>
                  /\ Head(engine'.callbacks) = OrderEvent(order, TRUE)]_vars

\* an order for the symbol without a book was rejected while an order
\* accepted before rests in a book
C22_Witness ==
    /\ engine.w_req.type = "NEW_ORDER"
    /\ engine.w_req.symbol_id = UnknownSymbol
    /\ engine.callbacks = <<OrderEvent(engine.w_req.order, FALSE)>>
    /\ engine.stats.rejected_orders = 1
    /\ engine.stats.total_orders >= 2
    /\ engine.books[RegisteredSymbol].order_map # <<>>


\* the request fails validation: a NEW_ORDER for a registered symbol with
\* zero quantity, with a price that is not positive or with the id of an
\* order resting in that symbol's book, or a CANCEL_ORDER or MODIFY_ORDER
\* for a symbol without a book
FailsValidation(request) ==
    IF request.type = "NEW_ORDER"
    THEN /\ request.symbol_id \in engine.order_books_
         /\ \/ request.order.quantity = 0
            \/ request.order.price <= 0
            \/ request.order.order_id
                 \in DOMAIN engine.books[request.symbol_id].order_map
    ELSE request.symbol_id \notin engine.order_books_

\* C23: when the worker processes a request that fails validation, every
\* book and every counter of the statistics is afterwards as it was before.
C23_InvalidIgnored ==
    [][(/\ engine'.processed = engine.processed + 1
        /\ FailsValidation(engine'.w_req)) =>
            /\ engine'.books = engine.books
            /\ engine'.stats = engine.stats]_vars

\* what holds of such a request: the books are as they were and so are the
\* counters, but for total_orders, which a NEW_ORDER request adds one to
InvalidIgnoredButCounted ==
    [][(/\ engine'.processed = engine.processed + 1
        /\ FailsValidation(engine'.w_req)) =>
            /\ engine'.books = engine.books
            /\ engine'.stats =
                 [engine.stats EXCEPT
                    !.total_orders =
                        IF engine'.w_req.type = "NEW_ORDER"
                        THEN @ + 1 ELSE @]]_vars


\* ==================================== several threads calling submit_order
\* The engine after the set-up of its test fixture, the worker, and the
\* threads of the test ConcurrentOrders, each calling submit_order on the
\* one engine. Here engine = the members, books, processed, w_req and
\* callbacks as above, and
\*   threads: for each submitter its place in submit_order, the node it has
\*     allocated and the number of calls it has made;
\*   returned: the number of submit_order calls that have returned
MaxSubmits == 2
Submitters == {"t1", "t2"}

\* the order of the n-th call of a submitter, as create_order numbers them
SubmitterOrder(t, n, side) ==
    Order((IF t = "t1" THEN 0 ELSE MaxSubmits) + n, 1, 1, side)

SubmittersInit ==
    /\ buy_levels = <<>> /\ sell_levels = <<>> /\ order_map = <<>>
    /\ heap = <<>> /\ next_trade_id = 1 /\ arrival = <<>>
    /\ last = Call("none", 0, <<>>, "none", FALSE)
    /\ feed = Absent
    /\ detector = Absent
    /\ handler = Absent
    /\ spsc = Absent
    /\ mpmc = Absent
    /\ engine = [order_books_ |-> RegisteredSymbols,
                 books |-> [sym \in RegisteredSymbols |-> create_order_book],
                 order_callback_ |-> TRUE, trade_callback_ |-> TRUE,
                 stats |-> MatchingEngineStats, running_ |-> TRUE,
                 order_queue_ |-> SPSCQueue(1),
                 threads |-> [t \in Submitters |->
                                [pc |-> "idle", node |-> NullPtr, calls |-> 0]],
                 returned |-> 0, processed |-> 0,
                 w_req |-> NoRequest, callbacks |-> <<>>]

\* submit_order up to the first half of SPSCQueue::enqueue: the test of
\* running_, new Node(request) at the lowest free address, and
\* cached_tail_->next.store(new_node)
SubmittersLink(t) ==
    /\ engine.threads[t].pc = "idle"
    /\ engine.threads[t].calls < MaxSubmits
    /\ engine.running_
    /\ \E side \in Sides :
         LET Q == engine.order_queue_
             free == {n \in 1..(2 * MaxSubmits + 1) : n \notin DOMAIN Q.nodes}
             new_node == CHOOSE n \in free : \A m \in free : n <= m
             request == new_order_request(
                            SubmitterOrder(t, engine.threads[t].calls + 1,
                                           side),
                            RegisteredSymbol)
         IN engine' = [engine EXCEPT
                         !.order_queue_ =
                             spsc_enqueue_link(Q, new_node, request),
                         !.threads[t] = [pc |-> "publish", node |-> new_node,
                                         calls |-> @.calls + 1]]
    /\ BookFrame /\ EngineFrame

\* the second half of enqueue, cached_tail_ = new_node and
\* tail_.store(new_node), and the return of submit_order
SubmittersPublish(t) ==
    /\ engine.threads[t].pc = "publish"
    /\ engine' = [engine EXCEPT
                    !.order_queue_ =
                        spsc_enqueue_publish(@, engine.threads[t].node),
                    !.threads[t].pc = "idle",
                    !.threads[t].node = NullPtr,
                    !.returned = @ + 1]
    /\ BookFrame /\ EngineFrame

SubmittersSubmitOrder ==
    \E t \in Submitters : SubmittersLink(t) \/ SubmittersPublish(t)

SubmittersNext ==
    \/ SubmittersSubmitOrder
    \/ RequestsWorker

SpecSubmitters == SubmittersInit /\ [][SubmittersNext]_vars

\* no submit_order call is in flight and the worker finds the queue empty
SubmittersDrained ==
    /\ \A t \in Submitters : engine.threads[t].pc = "idle"
    /\ spsc_dequeue(engine.order_queue_).ret = "nullopt"

\* C24: when submit_order is called by several threads at once, then once no
\* call is in flight and the queue is drained, total_orders is the number of
\* submit_order calls that returned: no order is lost, none processed twice.
C24_ConcurrentSubmitsAllProcessed ==
    SubmittersDrained => engine.stats.total_orders = engine.returned

\* no order is processed twice: at every moment total_orders is at most the
\* number of calls made (this much holds)
SubmitsAtMostOnce ==
    /\ engine.stats.total_orders = engine.processed
    /\ engine.processed
         <= engine.threads["t1"].calls + engine.threads["t2"].calls


\* C25: with one submitter, whenever the queue is drained the book of every
\* symbol, and the statistics, are those that result from applying the
\* requests submitted so far one after the other in submission order.
C25_SubmissionOrder ==
    Pending(engine.order_queue_) = 0 =>
        /\ engine.processed = engine.calls
        /\ engine.books = engine.sequential.books
        /\ engine.stats = engine.sequential.stats

\* three requests were processed, among them a modification, and the books
\* of both symbols hold resting orders
C25_Witness ==
    /\ Pending(engine.order_queue_) = 0
    /\ engine.processed = MaxRequests
    /\ engine.stats.modified_orders >= 1
    /\ \A sym \in RegisteredSymbols : engine.books[sym].order_map # <<>>


\* the trades that the book operation of a request generates
GeneratedTrades(request) ==
    IF request.symbol_id \notin engine.order_books_ THEN <<>>
    ELSE LET B == engine.books[request.symbol_id]
         IN IF request.type = "NEW_ORDER"
            THEN add_order(B, request.order).trades
            ELSE IF request.type = "MODIFY_ORDER"
            THEN modify_order(B, request.order_id, request.new_price,
                              request.new_quantity).trades
            ELSE <<>>

TradeCallbacks(events) == SelectSeq(events, LAMBDA e : e.cb = "trade")

\* the worker, processing this request, delivers each trade its book
\* operation generates once, in order, and counts it
TradesDelivered(request) ==
    LET trades == GeneratedTrades(request)
    IN /\ TradeCallbacks(engine'.callbacks)
            = [i \in DOMAIN trades |-> TradeEvent(trades[i])]
       /\ engine'.stats.total_trades
            = engine.stats.total_trades + Len(trades)
       /\ engine'.stats.total_volume
            = engine.stats.total_volume + SumQuantity(trades)

\* C26: every trade generated by the book operation of a request the worker
\* processes, a MODIFY_ORDER request whose re-added order crosses included,
\* is passed to trade_callback exactly once and counted: total_trades grows
\* by the number of trades generated and total_volume by their quantities.
C26_EveryTradeDelivered ==
    [][engine'.processed = engine.processed + 1 =>
          TradesDelivered(engine'.w_req)]_vars

\* the same for the requests other than MODIFY_ORDER (this much holds)
NewOrderTradesDelivered ==
    [][(/\ engine'.processed = engine.processed + 1
        /\ engine'.w_req.type # "MODIFY_ORDER") =>
          TradesDelivered(engine'.w_req)]_vars


\* ============================================================ FeedSimulator
\* A MarketDataUpdate is its type and the sequence_number of its quote or
\* trade; the prices and sizes are carried along untouched. The clock is
\* left out: last_update is 0 as constructed and 1 once it holds a time,
\* and the latency between two deliveries is any value of Latencies.
MaxPublish == 3
MaxStarts == 2
MaxLatency == 2
JitterMinMessages == 100
Latencies == 1..MaxLatency
SequenceStarts == {1, 5}
UpdateTypes == {"QUOTE", "TRADE"}
\* UINT64_MAX, scaled: above every latency
LatencyMinInit == MaxLatency + 1

MarketDataUpdate(type, sequence_number) ==
    [type |-> type, sequence_number |-> sequence_number]
NoUpdate == MarketDataUpdate("QUOTE", 0)

FeedStats ==
    [messages_received |-> 0, messages_dropped |-> 0, latency_sum_ns |-> 0,
     latency_min_ns |-> LatencyMinInit, latency_max_ns |-> 0,
     jitter_events |-> 0, last_update |-> 0]

\* variant: the counter is read and not advanced
fetch_add_stuck(counter) == [value |-> counter, counter |-> counter]

\* sequence_number_.fetch_add(1): the value before, and the counter after
fetch_add(counter) == [value |-> counter, counter |-> counter + 1]

\* pending_updates_.enqueue(update), the new node at the lowest free address
pending_enqueue(Q, update) ==
    LET free == {n \in 1..(MaxPublish + 2) : n \notin DOMAIN Q.nodes}
        new_node == CHOOSE n \in free : \A m \in free : n <= m
    IN spsc_enqueue_publish(spsc_enqueue_link(Q, new_node, update), new_node)

\* publish_quote and publish_trade: stamp, wrap, enqueue
publish(F, type) ==
    LET f == fetch_add(F.sequence_number_)
    IN [F EXCEPT !.sequence_number_ = f.counter,
                 !.pending_updates_ =
                     pending_enqueue(@, MarketDataUpdate(type, f.value))]

update_latency(stats, latency_ns) ==
    [stats EXCEPT
       !.latency_sum_ns = @ + latency_ns,
       !.latency_min_ns = IF latency_ns < @ THEN latency_ns ELSE @,
       !.latency_max_ns = IF latency_ns > @ THEN latency_ns ELSE @,
       !.messages_received = @ + 1]

\* latency_ns > average_latency_us() * 10000, in integers
is_jitter_event(stats, latency_ns) ==
    /\ stats.messages_received > JitterMinMessages
    /\ latency_ns * stats.messages_received > 10 * stats.latency_sum_ns

\* worker_loop, "Record stats": the latency is recorded only when
\* last_update holds a time already
record_stats(stats, latency_ns) ==
    LET s1 == IF stats.last_update > 0
              THEN LET u == update_latency(stats, latency_ns)
                   IN IF is_jitter_event(u, latency_ns)
                      THEN [u EXCEPT !.jitter_events = @ + 1]
                      ELSE u
              ELSE stats
    IN [s1 EXCEPT !.last_update = 1]

\* variant: a dropped message is also recorded as received
drop_packet_recorded(stats) ==
    [update_latency(stats, 1) EXCEPT !.messages_dropped = @ + 1]

\* worker_loop, the branch of should_drop_packet()
drop_packet(stats) == [stats EXCEPT !.messages_dropped = @ + 1]

\* ---- one control thread calling set_callback, then start and stop in
\* turn, one thread publishing, and the worker thread.
\* feed = the members config_ (its sequence_start), running_,
\* sequence_number_, pending_updates_, callback_ (whether one is set) and
\* stats_, and
\*   c_pc, w_pc: where the control thread and the worker are; w_update: the
\*     update in the worker's hands; starts: the calls of start() that
\*     spawned a worker;
\*   published: the updates published, in order; dequeued: the number of
\*     updates the worker has dequeued; delivered: the updates passed to the
\*     callback, in order;
\*   undelivered_at_stop: the sequence numbers of the updates that were
\*     published and neither delivered nor dropped when stop() was called
FeedFrame ==
    UNCHANGED <<buy_levels, sell_levels, order_map, heap, next_trade_id,
                arrival, last, spsc, mpmc, engine, detector, handler>>

FeedInit ==
    /\ buy_levels = <<>> /\ sell_levels = <<>> /\ order_map = <<>>
    /\ heap = <<>> /\ next_trade_id = 1 /\ arrival = <<>>
    /\ last = Call("none", 0, <<>>, "none", FALSE)
    /\ spsc = Absent
    /\ mpmc = Absent
    /\ engine = Absent
    /\ detector = Absent
    /\ handler = Absent
    /\ \E sequence_start \in SequenceStarts :
         feed = [config_ |-> [sequence_start |-> sequence_start],
                 running_ |-> FALSE,
                 sequence_number_ |-> sequence_start,
                 pending_updates_ |-> SPSCQueue(1),
                 callback_ |-> FALSE,
                 stats_ |-> FeedStats,
                 c_pc |-> "set_callback", w_pc |-> "none",
                 w_update |-> NoUpdate, starts |-> 0,
                 published |-> <<>>, dequeued |-> 0, delivered |-> <<>>,
                 dropped |-> {}, undelivered_at_stop |-> {}]

FeedSetCallback ==
    /\ feed.c_pc = "set_callback"
    /\ feed' = [feed EXCEPT !.callback_ = TRUE, !.c_pc = "idle"]
    /\ FeedFrame

\* start(): if (running_.exchange(true)) return; ...
FeedStart ==
    /\ feed.c_pc = "idle"
    /\ feed.starts < MaxStarts
    /\ feed' = IF feed.running_ THEN feed
               ELSE [feed EXCEPT !.running_ = TRUE, !.c_pc = "spawn",
                                 !.starts = @ + 1]
    /\ FeedFrame

\* ... worker_thread_ = std::thread(worker_loop)
FeedSpawn ==
    /\ feed.c_pc = "spawn"
    /\ feed' = [feed EXCEPT !.w_pc = "test", !.c_pc = "idle"]
    /\ FeedFrame

SequenceNumbers(updates) ==
    {updates[i].sequence_number : i \in DOMAIN updates}

\* stop(): if (!running_.exchange(false)) return; ...
FeedStop ==
    /\ feed.c_pc = "idle"
    /\ feed' = IF ~feed.running_ THEN feed
               ELSE [feed EXCEPT
                       !.running_ = FALSE, !.c_pc = "join",
                       !.undelivered_at_stop =
                           @ \cup (SequenceNumbers(feed.published)
                                   \ (SequenceNumbers(feed.delivered)
                                      \cup feed.dropped))]
    /\ FeedFrame

\* ... worker_thread_.join(), which returns when worker_loop has
FeedJoin ==
    /\ feed.c_pc = "join"
    /\ feed.w_pc = "done"
    /\ feed' = [feed EXCEPT !.c_pc = "idle", !.w_pc = "none"]
    /\ FeedFrame

Publish(type) ==
    /\ Len(feed.published) < MaxPublish
    /\ LET F == publish(feed, type)
       IN feed' = [F EXCEPT
                     !.published =
                         Append(@, MarketDataUpdate(type,
                                                    feed.sequence_number_))]
    /\ FeedFrame

FeedPublishQuote == Publish("QUOTE")
FeedPublishTrade == Publish("TRADE")

\* worker_loop: while (running_.load(acquire))
FeedWorkerTest ==
    /\ feed.w_pc = "test"
    /\ feed' = [feed EXCEPT
                  !.w_pc = IF feed.running_ THEN "dequeue" ELSE "done"]
    /\ FeedFrame

\* pending_updates_.dequeue(); without an update, sleep and continue
FeedWorkerDequeue ==
    /\ feed.w_pc = "dequeue"
    /\ LET r == spsc_dequeue(feed.pending_updates_)
       IN feed' = IF r.ret = "value"
                  THEN [feed EXCEPT !.pending_updates_ = r.queue,
                                    !.w_update = r.data,
                                    !.dequeued = @ + 1,
                                    !.w_pc = "latency"]
                  ELSE [feed EXCEPT !.pending_updates_ = r.queue,
                                    !.w_pc = "test"]
    /\ FeedFrame

\* after inject_latency(): should_drop_packet() returns true
FeedWorkerDrop ==
    /\ feed.w_pc = "latency"
    /\ feed' = [feed EXCEPT
                  !.stats_ = drop_packet(@),
                  !.dropped = @ \cup {feed.w_update.sequence_number},
                  !.w_update = NoUpdate,
                  !.w_pc = "test"]
    /\ FeedFrame

\* after inject_latency(): should_drop_packet() returns false; the stats
\* are recorded and the update is passed to the callback
FeedWorkerDeliver ==
    /\ feed.w_pc = "latency"
    /\ \E latency_ns \in Latencies :
         feed' = [feed EXCEPT
                    !.stats_ = record_stats(@, latency_ns),
                    !.delivered = IF feed.callback_
                                  THEN Append(@, feed.w_update) ELSE @,
                    !.w_update = NoUpdate,
                    !.w_pc = "test"]
    /\ FeedFrame

FeedNext ==
    \/ FeedSetCallback
    \/ FeedStart
    \/ FeedSpawn
    \/ FeedStop
    \/ FeedJoin
    \/ FeedPublishQuote
    \/ FeedPublishTrade
    \/ FeedWorkerTest
    \/ FeedWorkerDequeue
    \/ FeedWorkerDrop
    \/ FeedWorkerDeliver

SpecFeed == FeedInit /\ [][FeedNext]_vars

FeedTypeOK ==
    /\ feed.dequeued <= Len(feed.published)
    /\ ~feed.pending_updates_.uaf


\* C27: the i-th update published carries the sequence number
\* sequence_start + i - 1, so the numbers are unique and strictly increasing
\* in publish order; the updates delivered to the callback are published
\* updates, in publish order, with strictly increasing sequence numbers.
C27_SequenceNumbers ==
    /\ \A i \in DOMAIN feed.published :
         feed.published[i].sequence_number
           = feed.config_.sequence_start + i - 1
    /\ \A i \in DOMAIN feed.delivered :
         \E j \in DOMAIN feed.published :
            feed.delivered[i] = feed.published[j]
    /\ \A i, j \in DOMAIN feed.delivered :
         i < j => feed.delivered[i].sequence_number
                    < feed.delivered[j].sequence_number

\* a quote and a trade were delivered around a dropped update, by a feed
\* whose sequence_start is not 1
C27_Witness ==
    /\ feed.config_.sequence_start > 1
    /\ Len(feed.delivered) = 2
    /\ feed.delivered[1].type # feed.delivered[2].type
    /\ feed.delivered[2].sequence_number
         = feed.delivered[1].sequence_number + 2


\* C28: every update the worker dequeues is either passed to the callback,
\* once, or dropped, and never both; the step that drops it adds one to
\* messages_dropped, makes no callback and leaves the rest of the statistics,
\* the latency figures among them, as they were; the step that delivers it
\* leaves messages_dropped as it was.
FeedDeliveredOrDropped ==
    /\ feed.dequeued
         = Len(feed.delivered) + feed.stats_.messages_dropped
           + (IF feed.w_pc = "latency" THEN 1 ELSE 0)
    /\ feed.stats_.messages_dropped = Cardinality(feed.dropped)
    /\ NoDuplicates(feed.delivered)
    /\ SequenceNumbers(feed.delivered) \cap feed.dropped = {}

C28_DeliveredOrDropped ==
    /\ []FeedDeliveredOrDropped
    /\ [][(feed.w_pc = "latency" /\ feed'.w_pc # "latency") =>
            \/ /\ feed'.delivered = Append(feed.delivered, feed.w_update)
               /\ feed'.stats_.messages_dropped
                    = feed.stats_.messages_dropped
            \/ /\ feed'.delivered = feed.delivered
               /\ feed'.stats_ =
                    [feed.stats_ EXCEPT !.messages_dropped = @ + 1]]_vars

\* an update was dropped after the latency of a delivery had been recorded,
\* and another was delivered after it
C28_Witness ==
    /\ feed.stats_.messages_dropped = 1
    /\ feed.stats_.messages_received = 1
    /\ Len(feed.delivered) = 2
    /\ \E n \in feed.dropped : feed.delivered[2].sequence_number < n


\* C29: messages_received is the number of updates delivered to the
\* callback.
C29_ReceivedCountsDelivered ==
    feed.stats_.messages_received = Len(feed.delivered)

\* what holds instead: the first update delivered sets last_update only, and
\* every later one is counted, so the counter lags by one
ReceivedLagsByOne ==
    feed.stats_.messages_received
      = IF feed.delivered = <<>> THEN 0 ELSE Len(feed.delivered) - 1


\* C30: an update that was published and neither delivered nor dropped when
\* stop() was called is never passed to the callback afterwards, whether the
\* simulator is started again or not.
C30_StopDiscardsPending ==
    [][feed'.delivered # feed.delivered =>
         feed.w_update.sequence_number
           \notin feed.undelivered_at_stop]_vars

\* the same for the updates still in the queue when stop() returns: none of
\* them is delivered later (violated by a restart)
QueuedAtStopNeverDelivered ==
    [][(feed'.delivered # feed.delivered /\ feed.starts >= 2) =>
         feed.w_update.sequence_number
           \notin feed.undelivered_at_stop]_vars

\* what holds: from the return of stop() to the next start() the worker is
\* gone, no callback is made and the queue keeps what it held
FeedQuietWhileStopped ==
    [][(~feed.running_ /\ feed.c_pc = "idle") =>
         /\ feed.w_pc = "none"
         /\ feed'.delivered = feed.delivered
         /\ feed'.dequeued = feed.dequeued]_vars

\* ========================================================= ArbitrageDetector
\* A Quote is its symbol, prices, sizes and the time it was constructed; a
\* TradeTick its symbol and time. std::chrono's clock is a counter that
\* advances by one at each reading made by check_arbitrage; the times of the
\* quotes and trades are chosen by the caller. profit_basis_points is a
\* double: it is kept as the fraction <<numerator, denominator>>, and
\* total_profit_bps as a sum of such fractions.
MaxUpdates == 3
MaxRecentOpportunities == 1000
MissedThresholdNs == 1000000
DetectorSymbols == {1, 2}
FeedIds == {"A", "B"}
QuotePrices == {<<0, 0>>, <<1, 2>>, <<2, 3>>, <<3, 4>>, <<3, 1>>}
QuoteTimes == {1, 2}
TradeTimes == {1, MissedThresholdNs + 2}

Max(a, b) == IF a >= b THEN a ELSE b
Abs(a) == IF a < 0 THEN 0 - a ELSE a

Quote(sym, bid, ask, bid_sz, ask_sz, feed_id, now) ==
    [symbol_id |-> sym, bid_price |-> bid, ask_price |-> ask,
     bid_size |-> bid_sz, ask_size |-> ask_sz, timestamp_ns |-> now,
     feed_id |-> feed_id]
TradeTick(sym, feed_id, now) ==
    [symbol_id |-> sym, timestamp_ns |-> now, feed_id |-> feed_id]
QuoteUpdate(q) == [type |-> "QUOTE", quote |-> q]
TradeUpdate(t) == [type |-> "TRADE", trade |-> t]

\* symbol_states_[sym] of a symbol not seen before: value-initialised
SymbolState ==
    [feed_a_quote |-> Quote(0, 0, 0, 0, 0, "", 0),
     feed_b_quote |-> Quote(0, 0, 0, 0, 0, "", 0),
     has_feed_a |-> FALSE, has_feed_b |-> FALSE]

ArbitrageStats ==
    [opportunities_detected |-> 0, profitable_opportunities |-> 0,
     missed_opportunities |-> 0, total_profit_bps |-> <<>>,
     max_latency_diff_ns |-> 0, total_latency_diff_ns |-> 0]

update_quote(state, feed_id, quote) ==
    IF feed_id = "A"
    THEN [state EXCEPT !.feed_a_quote = quote, !.has_feed_a = TRUE]
    ELSE [state EXCEPT !.feed_b_quote = quote, !.has_feed_b = TRUE]

has_both_feeds(state) == state.has_feed_a /\ state.has_feed_b

\* variant: a profit is reported whenever feed B bids above feed A's bid
profit_basis_points_of_bids(opp) ==
    IF opp.feed_b_bid > opp.feed_a_bid
    THEN <<(opp.feed_b_bid - opp.feed_a_bid) * 10000, 1>>
    ELSE <<0, 1>>

profit_basis_points(opp) ==
    IF opp.feed_a_ask > 0 /\ opp.feed_b_bid > 0
       /\ opp.feed_b_bid > opp.feed_a_ask
    THEN <<(opp.feed_b_bid - opp.feed_a_ask) * 10000, opp.feed_a_ask>>
    ELSE IF opp.feed_b_ask > 0 /\ opp.feed_a_bid > 0
            /\ opp.feed_a_bid > opp.feed_b_ask
         THEN <<(opp.feed_a_bid - opp.feed_b_ask) * 10000, opp.feed_b_ask>>
         ELSE <<0, 1>>

\* x > 0.0 for a fraction with a positive denominator
is_profitable(opp) == profit_basis_points(opp)[1] > 0

\* total += y for a fraction y: the total is kept as the sum of the
\* numerators added so far under each denominator
AddFraction(total, y) ==
    Put(total, y[2], (IF y[2] \in DOMAIN total THEN total[y[2]] ELSE 0) + y[1])

record_opportunity(stats, opp) ==
    LET s1 == [stats EXCEPT !.opportunities_detected = @ + 1]
        s2 == IF is_profitable(opp)
              THEN [s1 EXCEPT
                      !.profitable_opportunities = @ + 1,
                      !.total_profit_bps =
                          AddFraction(@, profit_basis_points(opp))]
              ELSE s1
    IN [s2 EXCEPT
          !.max_latency_diff_ns = Max(@, opp.latency_difference_ns),
          !.total_latency_diff_ns = @ + opp.latency_difference_ns]

\* the cross-market test of check_arbitrage
has_opportunity(state) ==
    \/ /\ state.feed_a_quote.ask_price > 0
       /\ state.feed_b_quote.bid_price > 0
       /\ state.feed_b_quote.bid_price > state.feed_a_quote.ask_price
    \/ /\ state.feed_b_quote.ask_price > 0
       /\ state.feed_a_quote.bid_price > 0
       /\ state.feed_a_quote.bid_price > state.feed_b_quote.ask_price

bid_diff(state) ==
    Abs(state.feed_a_quote.bid_price - state.feed_b_quote.bid_price)
ask_diff(state) ==
    Abs(state.feed_a_quote.ask_price - state.feed_b_quote.ask_price)

ArbitrageOpportunity(symbol_id, state, now) ==
    LET a == state.feed_a_quote
        b == state.feed_b_quote
        a_first == a.timestamp_ns < b.timestamp_ns
    IN [symbol_id |-> symbol_id, timestamp_ns |-> now,
        fast_feed |-> IF a_first THEN "A" ELSE "B",
        slow_feed |-> IF a_first THEN "B" ELSE "A",
        latency_difference_ns |->
            IF a_first THEN b.timestamp_ns - a.timestamp_ns
            ELSE a.timestamp_ns - b.timestamp_ns,
        feed_a_bid |-> a.bid_price, feed_a_ask |-> a.ask_price,
        feed_b_bid |-> b.bid_price, feed_b_ask |-> b.ask_price,
        price_difference |-> Max(bid_diff(state), ask_diff(state))]

\* variant: when the buffer is over its cap the newest entry is erased
push_back_capped_newest(recent, opp) ==
    IF Len(recent) + 1 > MaxRecentOpportunities THEN recent
    ELSE Append(recent, opp)

\* recent_opportunities_.push_back(opp), then erase(begin()) over the cap
push_back_capped(recent, opp) ==
    LET pushed == Append(recent, opp)
    IN IF Len(pushed) > MaxRecentOpportunities THEN Tail(pushed)
       ELSE pushed

\* the body of "if (bid_diff > 0 || ask_diff > 0 || has_opportunity)"
record(D, opp) ==
    [D EXCEPT
       !.clock = @ + 1,
       !.stats_ = record_opportunity(@, opp),
       !.recent_opportunities_ = push_back_capped(@, opp),
       !.called = IF D.callback_ THEN @ + 1 ELSE @,
       !.called_with = IF D.callback_ THEN opp ELSE @]

\* variant: only a cross is recorded
check_arbitrage_cross_only(D, symbol_id, state) ==
    IF has_opportunity(state)
    THEN record(D, ArbitrageOpportunity(symbol_id, state, D.clock))
    ELSE D

check_arbitrage(D, symbol_id, state) ==
    IF bid_diff(state) > 0 \/ ask_diff(state) > 0 \/ has_opportunity(state)
    THEN record(D, ArbitrageOpportunity(symbol_id, state, D.clock))
    ELSE D

\* symbol_states_[sym]: the entry, created when it is not there
StateOf(D, sym) ==
    IF sym \in DOMAIN D.symbol_states_ THEN D.symbol_states_[sym]
    ELSE SymbolState

process_quote(D, feed_id, quote) ==
    LET state == update_quote(StateOf(D, quote.symbol_id), feed_id, quote)
        D1 == [D EXCEPT !.symbol_states_ = Put(@, quote.symbol_id, state)]
    IN IF has_both_feeds(state)
       THEN check_arbitrage(D1, quote.symbol_id, state)
       ELSE D1

process_trade(D, feed_id, trade) ==
    LET before == IF trade.symbol_id \in DOMAIN D.trade_timestamps_
                  THEN D.trade_timestamps_[trade.symbol_id] ELSE <<>>
        trade_times == Put(before, feed_id, trade.timestamp_ns)
        D1 == [D EXCEPT
                 !.trade_timestamps_ = Put(@, trade.symbol_id, trade_times)]
    IN IF /\ "A" \in DOMAIN trade_times
          /\ "B" \in DOMAIN trade_times
          /\ Abs(trade_times["A"] - trade_times["B"]) > MissedThresholdNs
       THEN [D1 EXCEPT !.stats_.missed_opportunities = @ + 1]
       ELSE D1

on_feed_update(D, feed_id, update) ==
    IF update.type = "QUOTE" THEN process_quote(D, feed_id, update.quote)
    ELSE IF update.type = "TRADE"
         THEN process_trade(D, feed_id, update.trade)
         ELSE D

get_stats(D) == D.stats_

get_recent_opportunities(D, count) ==
    LET size == Len(D.recent_opportunities_)
        start == IF size > count THEN size - count ELSE 0
    IN SubSeq(D.recent_opportunities_, start + 1, size)

\* ---- one thread: set_callback, then calls of on_feed_update.
\* detector = the members symbol_states_, trade_timestamps_,
\* recent_opportunities_, stats_ and callback_ (whether one is set), and
\*   clock: the next reading of the clock; called, called_with: the number of
\*     callback invocations and the argument of the last one;
\*   c_pc: where the thread is; updates: the calls of on_feed_update made;
\*   history: their arguments, in order
DetectorFrame ==
    UNCHANGED <<buy_levels, sell_levels, order_map, heap, next_trade_id,
                arrival, last, spsc, mpmc, engine, feed, handler>>

ArbitrageDetector ==
    [symbol_states_ |-> <<>>, trade_timestamps_ |-> <<>>,
     recent_opportunities_ |-> <<>>, stats_ |-> ArbitrageStats,
     callback_ |-> FALSE, clock |-> 1, called |-> 0,
     called_with |-> ArbitrageOpportunity(0, SymbolState, 0)]

DetectorInit ==
    /\ buy_levels = <<>> /\ sell_levels = <<>> /\ order_map = <<>>
    /\ heap = <<>> /\ next_trade_id = 1 /\ arrival = <<>>
    /\ last = Call("none", 0, <<>>, "none", FALSE)
    /\ spsc = Absent
    /\ mpmc = Absent
    /\ engine = Absent
    /\ feed = Absent
    /\ handler = Absent
    /\ detector = [d |-> ArbitrageDetector, c_pc |-> "set_callback",
                   updates |-> 0, history |-> <<>>]

DetectorSetCallback ==
    /\ detector.c_pc = "set_callback"
    /\ detector' = [detector EXCEPT !.d.callback_ = TRUE, !.c_pc = "idle"]
    /\ DetectorFrame

OnFeedUpdate(feed_id, update) ==
    /\ detector.c_pc = "idle"
    /\ detector' = [detector EXCEPT
                      !.d = on_feed_update(@, feed_id, update),
                      !.updates = @ + 1,
                      !.history =
                          Append(@, [feed_id |-> feed_id,
                                     update |-> update])]
    /\ DetectorFrame

DetectorQuote ==
    /\ detector.updates < MaxUpdates
    /\ \E feed_id \in FeedIds, sym \in DetectorSymbols, px \in QuotePrices,
          now \in QuoteTimes :
         OnFeedUpdate(feed_id,
                      QuoteUpdate(Quote(sym, px[1], px[2], 1, 1, feed_id,
                                        now)))

DetectorTrade ==
    /\ detector.updates < MaxUpdates
    /\ \E feed_id \in FeedIds, sym \in DetectorSymbols, now \in TradeTimes :
         OnFeedUpdate(feed_id, TradeUpdate(TradeTick(sym, feed_id, now)))

DetectorNext == DetectorSetCallback \/ DetectorQuote \/ DetectorTrade

SpecDetector == DetectorInit /\ [][DetectorNext]_vars

DetectorTypeOK ==
    /\ detector.updates = Len(detector.history)
    /\ detector.d.clock = detector.d.stats_.opportunities_detected + 1


\* the quotes of symbol sym received from the feed feed_id, in order
QuotesOf(history, sym, feed_id) ==
    SelectSeq(history,
              LAMBDA e : /\ e.update.type = "QUOTE"
                         /\ e.update.quote.symbol_id = sym
                         /\ e.feed_id = feed_id)
LastQuoteOf(history, sym, feed_id) ==
    QuotesOf(history, sym, feed_id)[Len(QuotesOf(history, sym, feed_id))]
        .update.quote

\* B.bid > A.ask > 0 or A.bid > B.ask > 0
Crossed(a, b) ==
    \/ b.bid_price > a.ask_price /\ a.ask_price > 0
    \/ a.bid_price > b.ask_price /\ b.ask_price > 0

\* feeds A and B have both quoted sym, and their last quotes of it differ
\* in bid, differ in ask, or are crossed
Disparity(history, sym) ==
    /\ QuotesOf(history, sym, "A") # <<>>
    /\ QuotesOf(history, sym, "B") # <<>>
    /\ \/ LastQuoteOf(history, sym, "A").bid_price
            # LastQuoteOf(history, sym, "B").bid_price
       \/ LastQuoteOf(history, sym, "A").ask_price
            # LastQuoteOf(history, sym, "B").ask_price
       \/ Crossed(LastQuoteOf(history, sym, "A"),
                  LastQuoteOf(history, sym, "B"))

\* the step is a call of on_feed_update with a quote
QuoteStep ==
    /\ detector'.updates = detector.updates + 1
    /\ detector'.history[detector'.updates].update.type = "QUOTE"
QuoteStepSymbol ==
    detector'.history[detector'.updates].update.quote.symbol_id

\* C31: with a callback registered, a call of on_feed_update with a quote
\* of symbol s records an opportunity of s (opportunities_detected + 1,
\* one entry appended to the buffer, one callback invocation with that
\* entry) iff, counting this quote, feeds A and B have both quoted s and
\* their latest quotes of s differ in bid, differ in ask or are crossed;
\* otherwise the statistics, the buffer and the callback count stay as they
\* were. The quotes of other symbols play no part in the condition.
C31_OpportunityIffDisparity ==
    [][QuoteStep =>
         IF Disparity(detector'.history, QuoteStepSymbol)
         THEN /\ detector'.d.stats_.opportunities_detected
                   = detector.d.stats_.opportunities_detected + 1
              /\ detector'.d.called = detector.d.called + 1
              /\ detector'.d.called_with.symbol_id = QuoteStepSymbol
              /\ detector'.d.recent_opportunities_
                   = Append(detector.d.recent_opportunities_,
                            detector'.d.called_with)
         ELSE /\ detector'.d.stats_ = detector.d.stats_
              /\ detector'.d.called = detector.d.called
              /\ detector'.d.recent_opportunities_
                   = detector.d.recent_opportunities_]_vars

\* feed A quoted symbol 1, then symbol 2, and the quote of feed B for
\* symbol 1 that followed was recorded as the only opportunity
C31_Witness ==
    /\ detector.updates = 3
    /\ detector.history[1].feed_id = "A"
    /\ detector.history[1].update.type = "QUOTE"
    /\ detector.history[1].update.quote.symbol_id = 1
    /\ detector.history[2].feed_id = "A"
    /\ detector.history[2].update.type = "QUOTE"
    /\ detector.history[2].update.quote.symbol_id = 2
    /\ detector.history[3].feed_id = "B"
    /\ detector.history[3].update.type = "QUOTE"
    /\ detector.d.stats_.opportunities_detected = 1
    /\ detector.d.called = 1
    /\ Len(detector.d.recent_opportunities_) = 1
    /\ detector.d.recent_opportunities_[1].symbol_id = 1


\* the opportunity that the step recorded, and the two quotes it compared
RecordedStep == QuoteStep /\ Disparity(detector'.history, QuoteStepSymbol)
Recorded == detector'.d.called_with
QuoteA == LastQuoteOf(detector'.history, QuoteStepSymbol, "A")
QuoteB == LastQuoteOf(detector'.history, QuoteStepSymbol, "B")

\* C32: the opportunity recorded by a quote carries the bids and asks of
\* the two stored quotes; it is profitable (profit_basis_points > 0, and
\* profitable_opportunities + 1) iff the quotes are crossed across the
\* feeds, B.bid > A.ask > 0 or A.bid > B.ask > 0; otherwise its profit is
\* exactly 0 and profitable_opportunities and total_profit_bps stay as
\* they were.
C32_ProfitableIffCrossed ==
    [][RecordedStep =>
         /\ Recorded.feed_a_bid = QuoteA.bid_price
         /\ Recorded.feed_a_ask = QuoteA.ask_price
         /\ Recorded.feed_b_bid = QuoteB.bid_price
         /\ Recorded.feed_b_ask = QuoteB.ask_price
         /\ IF Crossed(QuoteA, QuoteB)
            THEN /\ profit_basis_points(Recorded)[1] > 0
                 /\ profit_basis_points(Recorded)[2] > 0
                 /\ detector'.d.stats_.profitable_opportunities
                      = detector.d.stats_.profitable_opportunities + 1
            ELSE /\ profit_basis_points(Recorded) = <<0, 1>>
                 /\ detector'.d.stats_.profitable_opportunities
                      = detector.d.stats_.profitable_opportunities
                 /\ detector'.d.stats_.total_profit_bps
                      = detector.d.stats_.total_profit_bps]_vars

\* two opportunities were recorded, the first a disparity without a cross
\* and the second a cross
C32_Witness ==
    /\ detector.d.stats_.opportunities_detected = 2
    /\ detector.d.stats_.profitable_opportunities = 1
    /\ profit_basis_points(detector.d.recent_opportunities_[1]) = <<0, 1>>
    /\ profit_basis_points(detector.d.recent_opportunities_[2])[1] > 0


\* ---- the same thread filling the buffer: feed A and feed B quote symbol 1
\* in turn, feed A always the same prices and feed B three pairs in rotation,
\* the third of them equal to feed A's, until MaxRecorded opportunities have
\* been recorded
MaxRecorded == MaxRecentOpportunities + 3
RotatingPrices == <<<<2, 3>>, <<3, 4>>, <<1, 2>>>>
CountInputs ==
    {0, 1, 10, MaxRecentOpportunities - 1, MaxRecentOpportunities,
     MaxRecentOpportunities + 1}

RecentQuoteA ==
    /\ detector.d.stats_.opportunities_detected < MaxRecorded
    /\ detector.updates % 2 = 0
    /\ OnFeedUpdate("A", QuoteUpdate(Quote(1, 1, 2, 1, 1, "A", 1)))

RecentQuoteB ==
    /\ detector.d.stats_.opportunities_detected < MaxRecorded
    /\ detector.updates % 2 = 1
    /\ \E px \in {RotatingPrices[((detector.updates \div 2) % 3) + 1]} :
         OnFeedUpdate("B", QuoteUpdate(Quote(1, px[1], px[2], 1, 1, "B", 2)))

RecentNext == DetectorSetCallback \/ RecentQuoteA \/ RecentQuoteB

SpecRecent == DetectorInit /\ [][RecentNext]_vars

\* the buffer holds the opportunities recorded last, oldest first: the
\* i-th entry was stamped with the i-th of the last Len clock readings
RecentAreTheLatest ==
    \A i \in DOMAIN detector.d.recent_opportunities_ :
       detector.d.recent_opportunities_[i].timestamp_ns
         = detector.d.stats_.opportunities_detected
           - Len(detector.d.recent_opportunities_) + i

\* get_recent_opportunities(n) is the last min(n, size) entries, in order
RecentReturnsTail ==
    \A n \in CountInputs :
       LET got == get_recent_opportunities(detector.d, n)
           size == Len(detector.d.recent_opportunities_)
       IN /\ Len(got) = Min(n, size)
          /\ \A i \in DOMAIN got :
                got[i] = detector.d.recent_opportunities_[size - Len(got) + i]

\* C33: the buffer never holds more than 1000 entries and holds the
\* opportunities recorded last in the order they were recorded; recording
\* into a buffer of 1000 drops its oldest entry and appends the new one,
\* recording into a shorter buffer only appends; get_recent_opportunities(n)
\* returns the last min(n, size) entries of the buffer in that order.
C33_RecentBuffer ==
    /\ [](/\ Len(detector.d.recent_opportunities_)
               <= MaxRecentOpportunities
          /\ Len(detector.d.recent_opportunities_)
               = Min(detector.d.stats_.opportunities_detected,
                     MaxRecentOpportunities)
          /\ RecentAreTheLatest
          /\ RecentReturnsTail)
    /\ [][detector'.d.called = detector.d.called + 1 =>
            detector'.d.recent_opportunities_
              = Append(IF Len(detector.d.recent_opportunities_)
                            = MaxRecentOpportunities
                       THEN Tail(detector.d.recent_opportunities_)
                       ELSE detector.d.recent_opportunities_,
                       detector'.d.called_with)]_vars

\* the buffer is full and its two oldest entries have been discarded
C33_Witness ==
    /\ Len(detector.d.recent_opportunities_) = MaxRecentOpportunities
    /\ detector.d.stats_.opportunities_detected = MaxRecentOpportunities + 2
    /\ detector.d.recent_opportunities_[1].timestamp_ns = 3


\* =============================================================== FeedHandler
\* A FeedHandler built on a running engine, as its callers build it: feeds A
\* and B, each a queue of pending updates and a worker that drops or
\* delivers them to process_feed_update, the detector, and the engine's
\* submit_order, which is the list of the orders it was given.
\* handler = per feed the pending updates, where its worker is (w_pc) and
\* the update in the worker's hands (w_update), and
\*   started: whether start() has been called; published: the calls of
\*     publish_quote and publish_trade made; next_id: the counter of
\*     generate_order_id; submitted: the orders given to submit_order, in
\*     order; delivered: per feed the updates passed to its callback
\* detector.d is the handler's ArbitrageDetector and detector.history the
\* calls of its on_feed_update.
MaxHandlerPublishes == 2
FirstGeneratedOrderId == 1000000
HandlerBids == {0, 1}
HandlerAsks == {0, 2}
HandlerSizes == {0, 1}

HandlerFrame ==
    UNCHANGED <<buy_levels, sell_levels, order_map, heap, next_trade_id,
                arrival, last, spsc, mpmc, engine, feed>>

FeedOfHandler == [pending |-> <<>>, w_pc |-> "idle",
                  w_update |-> TradeUpdate(TradeTick(0, "", 0))]

HandlerInit ==
    /\ buy_levels = <<>> /\ sell_levels = <<>> /\ order_map = <<>>
    /\ heap = <<>> /\ next_trade_id = 1 /\ arrival = <<>>
    /\ last = Call("none", 0, <<>>, "none", FALSE)
    /\ spsc = Absent
    /\ mpmc = Absent
    /\ engine = Absent
    /\ feed = Absent
    /\ detector = [d |-> [ArbitrageDetector EXCEPT !.callback_ = TRUE],
                   c_pc |-> "idle", updates |-> 0, history |-> <<>>]
    /\ handler = [feeds |-> [f \in FeedIds |-> FeedOfHandler],
                  started |-> FALSE, published |-> 0,
                  next_id |-> FirstGeneratedOrderId, submitted |-> <<>>,
                  delivered |-> [f \in FeedIds |-> <<>>]]

\* FeedHandler::start(): both workers run from here on
HandlerStart ==
    /\ ~handler.started
    /\ handler' = [handler EXCEPT !.started = TRUE]
    /\ UNCHANGED detector
    /\ HandlerFrame

\* the update goes to feed A and then to feed B, each stamping its own id
handler_publish(H, update_of) ==
    [H EXCEPT !.feeds["A"].pending = Append(@, update_of["A"]),
              !.feeds["B"].pending = Append(@, update_of["B"]),
              !.published = @ + 1]

HandlerPublishQuote ==
    /\ handler.published < MaxHandlerPublishes
    /\ \E bid \in HandlerBids, ask \in HandlerAsks,
          bid_size \in HandlerSizes, ask_size \in HandlerSizes :
         handler' =
           handler_publish(handler,
             [f \in FeedIds |->
                QuoteUpdate(Quote(1, bid, ask, bid_size, ask_size, f,
                                  handler.published + 1))])
    /\ UNCHANGED detector
    /\ HandlerFrame

HandlerPublishTrade ==
    /\ handler.published < MaxHandlerPublishes
    /\ handler' =
         handler_publish(handler,
           [f \in FeedIds |->
              TradeUpdate(TradeTick(1, f, handler.published + 1))])
    /\ UNCHANGED detector
    /\ HandlerFrame

\* worker_loop of feed f: dequeue, then should_drop_packet() ...
HandlerWorkerDrop(f) ==
    /\ handler.started
    /\ handler.feeds[f].w_pc = "idle"
    /\ handler.feeds[f].pending # <<>>
    /\ handler' = [handler EXCEPT !.feeds[f].pending = Tail(@)]
    /\ UNCHANGED detector
    /\ HandlerFrame

\* ... or callback_(update, stats_), which is process_feed_update(f, ...)
HandlerWorkerDeliver(f) ==
    /\ handler.started
    /\ handler.feeds[f].w_pc = "idle"
    /\ handler.feeds[f].pending # <<>>
    /\ handler' = [handler EXCEPT
                     !.feeds[f].pending = Tail(@),
                     !.feeds[f].w_update = Head(handler.feeds[f].pending),
                     !.feeds[f].w_pc = "detector",
                     !.delivered[f] =
                         Append(@, Head(handler.feeds[f].pending))]
    /\ UNCHANGED detector
    /\ HandlerFrame

\* variant: the quotes of every feed are turned into orders
quotes_to_orders_any_feed(feed_id, update) == update.type = "QUOTE"

\* "if (feed_id == 'A' && update.type == UpdateType::QUOTE)"
quotes_to_orders(feed_id, update) ==
    feed_id = "A" /\ update.type = "QUOTE"

\* process_feed_update: arbitrage_detector_->on_feed_update(feed_id, update)
HandlerToDetector(f) ==
    /\ handler.feeds[f].w_pc = "detector"
    /\ detector' = [detector EXCEPT
                      !.d = on_feed_update(@, f, handler.feeds[f].w_update),
                      !.updates = @ + 1,
                      !.history =
                          Append(@, [feed_id |-> f,
                                     update |-> handler.feeds[f].w_update])]
    /\ handler' = [handler EXCEPT
                     !.feeds[f].w_pc =
                         IF quotes_to_orders(f, handler.feeds[f].w_update)
                         THEN "bid" ELSE "idle"]
    /\ HandlerFrame

\* an Order with generate_order_id() as its id, given to submit_order
submit_generated(H, symbol_id, side, price, quantity) ==
    [H EXCEPT
       !.next_id = fetch_add(@).counter,
       !.submitted =
           Append(@, [order_id |-> fetch_add(H.next_id).value,
                      symbol_id |-> symbol_id, side |-> side,
                      price |-> price, quantity |-> quantity])]

\* process_feed_update: "if (quote.bid_price > 0 && quote.bid_size > 0)"
place_bid(H, quote) ==
    IF quote.bid_price > 0 /\ quote.bid_size > 0
    THEN submit_generated(H, quote.symbol_id, "BUY", quote.bid_price,
                          quote.bid_size)
    ELSE H

\* process_feed_update: "if (quote.ask_price > 0 && quote.ask_size > 0)"
place_ask(H, quote) ==
    IF quote.ask_price > 0 /\ quote.ask_size > 0
    THEN submit_generated(H, quote.symbol_id, "SELL", quote.ask_price,
                          quote.ask_size)
    ELSE H

HandlerPlaceBid(f) ==
    /\ handler.feeds[f].w_pc = "bid"
    /\ handler' = [place_bid(handler, handler.feeds[f].w_update.quote)
                     EXCEPT !.feeds[f].w_pc = "ask"]
    /\ UNCHANGED detector
    /\ HandlerFrame

HandlerPlaceAsk(f) ==
    /\ handler.feeds[f].w_pc = "ask"
    /\ handler' = [place_ask(handler, handler.feeds[f].w_update.quote)
                     EXCEPT !.feeds[f].w_pc = "idle"]
    /\ UNCHANGED detector
    /\ HandlerFrame

HandlerWorker ==
    \E f \in FeedIds :
       \/ HandlerWorkerDrop(f)
       \/ HandlerWorkerDeliver(f)
       \/ HandlerToDetector(f)
       \/ HandlerPlaceBid(f)
       \/ HandlerPlaceAsk(f)

HandlerNext ==
    \/ HandlerStart
    \/ HandlerPublishQuote
    \/ HandlerPublishTrade
    \/ HandlerWorker

SpecHandler == HandlerInit /\ [][HandlerNext]_vars


\* the orders a quote of feed A calls for, without their ids
BidDue(q) ==
    IF q.bid_price > 0 /\ q.bid_size > 0
    THEN <<[symbol_id |-> q.symbol_id, side |-> "BUY",
            price |-> q.bid_price, quantity |-> q.bid_size]>>
    ELSE <<>>
AskDue(q) ==
    IF q.ask_price > 0 /\ q.ask_size > 0
    THEN <<[symbol_id |-> q.symbol_id, side |-> "SELL",
            price |-> q.ask_price, quantity |-> q.ask_size]>>
    ELSE <<>>

\* the orders called for by the quotes of feed A among the updates that
\* reached the detector, in order
RECURSIVE OrdersDue(_)
OrdersDue(history) ==
    IF history = <<>> THEN <<>>
    ELSE LET e == history[Len(history)]
         IN OrdersDue(SubSeq(history, 1, Len(history) - 1))
            \o (IF e.feed_id = "A" /\ e.update.type = "QUOTE"
                THEN BidDue(e.update.quote) \o AskDue(e.update.quote)
                ELSE <<>>)

\* the part of them that the worker of feed A has yet to submit
OrdersOutstanding ==
    IF handler.feeds["A"].w_pc = "bid"
    THEN BidDue(handler.feeds["A"].w_update.quote)
         \o AskDue(handler.feeds["A"].w_update.quote)
    ELSE IF handler.feeds["A"].w_pc = "ask"
         THEN AskDue(handler.feeds["A"].w_update.quote)
         ELSE <<>>

SubmittedWithoutIds ==
    [i \in DOMAIN handler.submitted |->
       [symbol_id |-> handler.submitted[i].symbol_id,
        side |-> handler.submitted[i].side,
        price |-> handler.submitted[i].price,
        quantity |-> handler.submitted[i].quantity]]

\* the updates of feed f that reached the detector, in order
ReachedDetector(f) ==
    LET h == SelectSeq(detector.history, LAMBDA e : e.feed_id = f)
    IN [i \in DOMAIN h |-> h[i].update]

\* C34: the orders submitted to the engine are, in order, those called for
\* by the quotes that feed A delivered: a buy at the bid when bid price and
\* bid size are positive, then a sell at the ask when ask price and ask size
\* are positive, less the ones the worker of feed A is about to submit; the
\* i-th order submitted has the id 1000000 + i - 1; the updates delivered by
\* feed B and the trade ticks add no order; and the updates that reached the
\* detector from a feed are the updates that feed delivered, less the one
\* its worker is about to hand over.
C34_OrdersFromFeedA ==
    /\ SubmittedWithoutIds \o OrdersOutstanding
         = OrdersDue(detector.history)
    /\ \A i \in DOMAIN handler.submitted :
         handler.submitted[i].order_id = FirstGeneratedOrderId + i - 1
    /\ \A f \in FeedIds :
         handler.delivered[f]
           = ReachedDetector(f)
             \o (IF handler.feeds[f].w_pc = "detector"
                 THEN <<handler.feeds[f].w_update>> ELSE <<>>)
    /\ \A f \in FeedIds :
         handler.feeds[f].w_pc \in {"bid", "ask"} =>
            f = "A" /\ handler.feeds[f].w_update.type = "QUOTE"

\* both feeds delivered a quote with positive prices and sizes and a trade
\* tick, everything was processed, and the engine was given feed A's bid
\* and ask
C34_Witness ==
    /\ \A f \in FeedIds :
         /\ Len(handler.delivered[f]) = 2
         /\ handler.delivered[f][1].type = "QUOTE"
         /\ handler.delivered[f][2].type = "TRADE"
         /\ handler.feeds[f].w_pc = "idle"
    /\ detector.updates = 4
    /\ Len(handler.submitted) = 2
    /\ handler.submitted[1].side = "BUY"
    /\ handler.submitted[1].order_id = FirstGeneratedOrderId
    /\ handler.submitted[2].side = "SELL"
    /\ handler.submitted[2].order_id = FirstGeneratedOrderId + 1


\* ==================================== several threads calling the detector
\* Two threads, each calling on_feed_update, set_callback, get_stats or
\* get_recent_opportunities. std::lock_guard is two steps, the acquisition
\* and the body with the release at its end; set_callback is the step that
\* starts the assignment to callback_ and the step that ends it.
\* detector = d, the ArbitrageDetector; mutex: the thread that holds
\* mutex_, or "free"; th: per thread the operation it is in (op), where it
\* is in it (pc), the update it passed and what the call returned; calls:
\* the calls made; crashed: whether a read of callback_ during an
\* assignment to it has ended the process.
MaxDetectorCalls == 3
DetectorThreads == {"t1", "t2"}
DetectorParts ==
    {"symbol_states_", "trade_timestamps_", "stats_",
     "recent_opportunities_", "callback_"}
ThreadUpdates ==
    {[feed_id |-> "A", update |-> QuoteUpdate(Quote(1, 1, 2, 1, 1, "A", 1))],
     [feed_id |-> "B", update |-> QuoteUpdate(Quote(1, 2, 3, 1, 1, "B", 2))]}

DetectorThread ==
    [op |-> "none", pc |-> "idle",
     arg |-> [feed_id |-> "", update |-> TradeUpdate(TradeTick(0, "", 0))],
     ret |-> <<>>]

ThreadsInit ==
    /\ buy_levels = <<>> /\ sell_levels = <<>> /\ order_map = <<>>
    /\ heap = <<>> /\ next_trade_id = 1 /\ arrival = <<>>
    /\ last = Call("none", 0, <<>>, "none", FALSE)
    /\ spsc = Absent
    /\ mpmc = Absent
    /\ engine = Absent
    /\ feed = Absent
    /\ handler = Absent
    /\ detector = [d |-> ArbitrageDetector, mutex |-> "free",
                   th |-> [t \in DetectorThreads |-> DetectorThread],
                   calls |-> 0, crashed |-> FALSE]

\* the members a thread is reading or writing where it stands
Accessing(t) ==
    LET th == detector.th[t]
    IN IF th.pc = "assign" THEN {"callback_"}
       ELSE IF th.pc # "body" THEN {}
       ELSE IF th.op = "get_stats" THEN {"stats_"}
       ELSE IF th.op = "get_recent_opportunities"
            THEN {"recent_opportunities_"}
       ELSE DetectorParts

CanCall(t) ==
    /\ ~detector.crashed
    /\ detector.th[t].pc = "idle"
    /\ detector.calls < MaxDetectorCalls

\* the operations that start with std::lock_guard<std::mutex> lock(mutex_)
ThreadsCallOnFeedUpdate(t) ==
    /\ CanCall(t)
    /\ \E arg \in ThreadUpdates :
         detector' = [detector EXCEPT
                        !.th[t].op = "on_feed_update", !.th[t].pc = "lock",
                        !.th[t].arg = arg, !.calls = @ + 1]
    /\ DetectorFrame

ThreadsCallGetStats(t) ==
    /\ CanCall(t)
    /\ detector' = [detector EXCEPT
                      !.th[t].op = "get_stats", !.th[t].pc = "lock",
                      !.calls = @ + 1]
    /\ DetectorFrame

ThreadsCallGetRecent(t) ==
    /\ CanCall(t)
    /\ detector' = [detector EXCEPT
                      !.th[t].op = "get_recent_opportunities",
                      !.th[t].pc = "lock", !.calls = @ + 1]
    /\ DetectorFrame

ThreadsLock(t) ==
    /\ ~detector.crashed
    /\ detector.th[t].pc = "lock"
    /\ detector.mutex = "free"
    /\ detector' = [detector EXCEPT !.mutex = t, !.th[t].pc = "body"]
    /\ DetectorFrame

\* set_callback: callback_ = std::move(callback), without the mutex
ThreadsCallSetCallback(t) ==
    /\ CanCall(t)
    /\ detector' = [detector EXCEPT
                      !.th[t].op = "set_callback", !.th[t].pc = "assign",
                      !.calls = @ + 1]
    /\ DetectorFrame

ThreadsAssignCallback(t) ==
    /\ ~detector.crashed
    /\ detector.th[t].pc = "assign"
    /\ detector' = [detector EXCEPT
                      !.d.callback_ = TRUE, !.th[t].pc = "idle"]
    /\ DetectorFrame

\* callback_ as on_feed_update may find it: while another thread is
\* assigning to it, set, empty or unusable
CallbackSeen ==
    IF \E u \in DetectorThreads : detector.th[u].pc = "assign"
    THEN {"set", "empty", "unusable"}
    ELSE {IF detector.d.callback_ THEN "set" ELSE "empty"}

\* the body of on_feed_update and the release of the mutex
ThreadsBodyOnFeedUpdate(t) ==
    /\ ~detector.crashed
    /\ detector.th[t].pc = "body"
    /\ detector.th[t].op = "on_feed_update"
    /\ \E seen \in CallbackSeen :
         LET D == on_feed_update([detector.d EXCEPT
                                    !.callback_ = (seen = "set")],
                                 detector.th[t].arg.feed_id,
                                 detector.th[t].arg.update)
             read == D.stats_ # detector.d.stats_
         IN detector' =
              [detector EXCEPT
                 !.d = [D EXCEPT !.callback_ = detector.d.callback_],
                 !.crashed = read /\ seen = "unusable",
                 !.mutex = "free", !.th[t].pc = "idle"]
    /\ DetectorFrame

ThreadsBodyGetStats(t) ==
    /\ ~detector.crashed
    /\ detector.th[t].pc = "body"
    /\ detector.th[t].op = "get_stats"
    /\ detector' = [detector EXCEPT
                      !.th[t].ret = get_stats(detector.d),
                      !.mutex = "free", !.th[t].pc = "idle"]
    /\ DetectorFrame

ThreadsBodyGetRecent(t) ==
    /\ ~detector.crashed
    /\ detector.th[t].pc = "body"
    /\ detector.th[t].op = "get_recent_opportunities"
    /\ detector' = [detector EXCEPT
                      !.th[t].ret = get_recent_opportunities(detector.d, 10),
                      !.mutex = "free", !.th[t].pc = "idle"]
    /\ DetectorFrame

ThreadsNext ==
    \E t \in DetectorThreads :
       \/ ThreadsCallOnFeedUpdate(t)
       \/ ThreadsCallGetStats(t)
       \/ ThreadsCallGetRecent(t)
       \/ ThreadsCallSetCallback(t)
       \/ ThreadsLock(t)
       \/ ThreadsAssignCallback(t)
       \/ ThreadsBodyOnFeedUpdate(t)
       \/ ThreadsBodyGetStats(t)
       \/ ThreadsBodyGetRecent(t)

SpecThreads == ThreadsInit /\ [][ThreadsNext]_vars


\* C35: a thread reads or writes a member of the detector only while it
\* holds mutex_, in every public operation, so no two threads are ever at
\* the same member at the same time.
C35_AllUnderMutex ==
    /\ \A t \in DetectorThreads :
         Accessing(t) # {} => detector.mutex = t
    /\ \A t, u \in DetectorThreads :
         t # u => Accessing(t) \cap Accessing(u) = {}

\* what holds: the symbol state, the trade times, the statistics and the
\* buffer are only touched by the holder of mutex_, one thread at a time
StateUnderMutex ==
    /\ \A t \in DetectorThreads :
         Accessing(t) \ {"callback_"} # {} => detector.mutex = t
    /\ \A t, u \in DetectorThreads :
         t # u => (Accessing(t) \cap Accessing(u)) \ {"callback_"} = {}


\* ======================================================= the book, once more
\* the order with this id rests before and after the step, as the same
\* object, and the step has taken some of its quantity
PartiallyFilledBy(id) ==
    /\ last'.op \in {"add", "modify"}
    /\ last'.id # id
    /\ id \in DOMAIN order_map
    /\ id \in DOMAIN order_map'
    /\ heap'[order_map'[id]].quantity < heap[order_map[id]].quantity

\* the step is an add_order whose order traded and rests with what is left
RestsAfterTrading ==
    /\ last'.op = "add"
    /\ last'.trades # <<>>
    /\ last'.id \in DOMAIN order_map'

\* C36: an order of the book that has been filled in part and still rests
\* has the status PARTIALLY_FILLED, whether it was resting when it traded
\* or is the incoming order resting with its remainder, and the status of
\* an order that stays in the book never goes back to NEW.
C36_StatusStateMachine ==
    [][/\ \A id \in OrderIds :
            PartiallyFilledBy(id) =>
               heap'[order_map'[id]].status = "PARTIALLY_FILLED"
       /\ RestsAfterTrading =>
            heap'[order_map'[last'.id]].status = "PARTIALLY_FILLED"]_vars

\* what holds: the book never writes the status of an order; every order
\* in it has the status it was submitted with
StatusNeverWritten ==
    \A ptr \in DOMAIN heap : heap[ptr].status = "NEW"


\* the ids of the orders resting at a price on a side
RestingAt(side, price) ==
    {id \in DOMAIN order_map :
        /\ heap[order_map[id]].side = side
        /\ heap[order_map[id]].price = price}

\* C37: a price is a key of the bid map (ask map) iff some order rests at
\* it on that side, and no level has an empty queue; best_bid() is the
\* highest price at which a buy rests and best_ask() the lowest at which a
\* sell rests, and each is undefined only when no order rests on its side;
\* order_count_at_price is the length of the level's queue and the number
\* of orders resting at the price, 0 where there is no level.
C37_LevelsAreNonEmpty ==
    /\ \A side \in Sides : \A p \in PriceInputs :
         /\ (p \in DOMAIN Levels(Book, side)) = (RestingAt(side, p) # {})
         /\ order_count_at_price(Book, p, side)
              = Cardinality(RestingAt(side, p))
    /\ \A side \in Sides : \A p \in DOMAIN Levels(Book, side) :
         /\ Levels(Book, side)[p].orders # <<>>
         /\ order_count_at_price(Book, p, side)
              = Len(Levels(Book, side)[p].orders)
    /\ IF \E p \in Prices : RestingAt("BUY", p) # {}
       THEN /\ RestingAt("BUY", best_bid(Book)) # {}
            /\ \A p \in Prices :
                  RestingAt("BUY", p) # {} => p <= best_bid(Book)
       ELSE best_bid(Book) = NullPtr
    /\ IF \E p \in Prices : RestingAt("SELL", p) # {}
       THEN /\ RestingAt("SELL", best_ask(Book)) # {}
            /\ \A p \in Prices :
                  RestingAt("SELL", p) # {} => best_ask(Book) <= p
       ELSE best_ask(Book) = NullPtr

\* an incoming buy has emptied every ask level and is gone itself, and
\* two buys rest at one price
C37_Witness ==
    /\ last.op = "add"
    /\ last.trades # <<>>
    /\ last.trades[1].sell_order_id # last.id
    /\ last.id \notin DOMAIN order_map
    /\ sell_levels = <<>>
    /\ \E p \in Prices : order_count_at_price(Book, p, "BUY") = 2


\* ===================================== several threads calling start and stop
\* Two control threads calling start() and stop() on one engine, each call
\* in the steps its statements make, with requests submitted in between.
\* engine = running_; worker_thread_: the worker the std::thread member
\* stands for, or NullPtr when it is not joinable; workers: for every
\* worker thread created so far where it is ("loop", "drain", "done");
\* pending: the requests in order_queue_; submitted: the requests
\* submitted so far; consumed: per worker the number of requests it
\* dequeued; th: per control thread the operation it is in
\* (op), where it is in it (pc), the worker it is creating or joining (w)
\* and how its last call ended (ret); calls: the calls made; terminated:
\* whether std::terminate was called.
MaxControlCalls == 4
MaxQueued == 2
ControlThreads == {"c1", "c2"}

ControlInit ==
    /\ buy_levels = <<>> /\ sell_levels = <<>> /\ order_map = <<>>
    /\ heap = <<>> /\ next_trade_id = 1 /\ arrival = <<>>
    /\ last = Call("none", 0, <<>>, "none", FALSE)
    /\ spsc = Absent
    /\ mpmc = Absent
    /\ feed = Absent
    /\ detector = Absent
    /\ handler = Absent
    /\ engine = [running_ |-> FALSE, worker_thread_ |-> NullPtr,
                 workers |-> <<>>, pending |-> 0, submitted |-> 0,
                 consumed |-> <<>>,
                 th |-> [t \in ControlThreads |->
                           [op |-> "none", pc |-> "idle", w |-> NullPtr,
                            ret |-> "none"]],
                 calls |-> 0, terminated |-> FALSE]

ControlCanCall(t) ==
    /\ ~engine.terminated
    /\ engine.th[t].pc = "idle"
    /\ engine.calls < MaxControlCalls

\* variant: start() sets running_ without looking at it
start_exchange_unchecked(E, t) ==
    [E EXCEPT !.running_ = TRUE, !.calls = @ + 1,
              !.th[t] = [op |-> "start", pc |-> "spawn", w |-> NullPtr,
                         ret |-> "none"]]

\* start(): "if (running_.exchange(true)) throw ..."
start_exchange(E, t) ==
    IF E.running_
    THEN [E EXCEPT !.calls = @ + 1,
                   !.th[t] = [op |-> "start", pc |-> "idle", w |-> NullPtr,
                              ret |-> "error"]]
    ELSE [E EXCEPT !.running_ = TRUE, !.calls = @ + 1,
                   !.th[t] = [op |-> "start", pc |-> "spawn", w |-> NullPtr,
                              ret |-> "none"]]

ControlStart(t) ==
    /\ ControlCanCall(t)
    /\ engine' = start_exchange(engine, t)
    /\ BookFrame /\ EngineFrame

\* start(): std::thread(&MatchingEngineImpl::worker_loop, this), the
\* temporary: the new thread runs from here on
ControlSpawn(t) ==
    /\ ~engine.terminated
    /\ engine.th[t].pc = "spawn"
    /\ engine' = [engine EXCEPT
                    !.workers = Append(@, "loop"),
                    !.consumed = Append(@, 0),
                    !.th[t].w = Len(engine.workers) + 1,
                    !.th[t].pc = "assign"]
    /\ BookFrame /\ EngineFrame

\* start(): worker_thread_ = the temporary; assigning to a std::thread
\* that is joinable calls std::terminate
ControlAssign(t) ==
    /\ ~engine.terminated
    /\ engine.th[t].pc = "assign"
    /\ engine' = IF engine.worker_thread_ # NullPtr
                 THEN [engine EXCEPT !.terminated = TRUE]
                 ELSE [engine EXCEPT
                         !.worker_thread_ = engine.th[t].w,
                         !.th[t].pc = "idle", !.th[t].ret = "started"]
    /\ BookFrame /\ EngineFrame

\* stop(): "if (!running_.exchange(false)) return;"
stop_exchange(E, t) ==
    IF ~E.running_
    THEN [E EXCEPT !.calls = @ + 1,
                   !.th[t] = [op |-> "stop", pc |-> "idle", w |-> NullPtr,
                              ret |-> "already stopped"]]
    ELSE [E EXCEPT !.running_ = FALSE, !.calls = @ + 1,
                   !.th[t] = [op |-> "stop", pc |-> "joinable",
                              w |-> NullPtr, ret |-> "none"]]

ControlStop(t) ==
    /\ ControlCanCall(t)
    /\ engine' = stop_exchange(engine, t)
    /\ BookFrame /\ EngineFrame

\* worker_thread_ as stop() may read it: while another thread is assigning
\* to it, the value before or the value being assigned
WorkerThreadSeen ==
    {engine.worker_thread_}
      \cup {engine.th[u].w :
              u \in {v \in ControlThreads : engine.th[v].pc = "assign"}}

\* stop(): "if (worker_thread_.joinable())"
ControlJoinable(t) ==
    /\ ~engine.terminated
    /\ engine.th[t].pc = "joinable"
    /\ \E w \in WorkerThreadSeen :
         engine' = IF w = NullPtr
                   THEN [engine EXCEPT !.th[t].pc = "idle",
                                       !.th[t].ret = "stopped"]
                   ELSE [engine EXCEPT !.th[t].pc = "join", !.th[t].w = w]
    /\ BookFrame /\ EngineFrame

\* stop(): worker_thread_.join() returns once the worker has ended
ControlJoin(t) ==
    /\ ~engine.terminated
    /\ engine.th[t].pc = "join"
    /\ engine.workers[engine.th[t].w] = "done"
    /\ engine' = [engine EXCEPT
                    !.worker_thread_ =
                        IF @ = engine.th[t].w THEN NullPtr ELSE @,
                    !.th[t].pc = "idle", !.th[t].ret = "stopped"]
    /\ BookFrame /\ EngineFrame

\* submit_order by a control thread between its calls
ControlSubmit(t) ==
    /\ ~engine.terminated
    /\ engine.th[t].pc = "idle"
    /\ engine.running_
    /\ engine.submitted < MaxQueued
    /\ engine' = [engine EXCEPT !.pending = @ + 1, !.submitted = @ + 1]
    /\ BookFrame /\ EngineFrame

\* worker_loop: "while (running_.load())" with its dequeue
ControlWorkerLoop(w) ==
    /\ ~engine.terminated
    /\ engine.workers[w] = "loop"
    /\ engine' = IF ~engine.running_
                 THEN [engine EXCEPT !.workers[w] = "drain"]
                 ELSE IF engine.pending > 0
                      THEN [engine EXCEPT !.pending = @ - 1,
                                          !.consumed[w] = @ + 1]
                      ELSE engine
    /\ engine' # engine
    /\ BookFrame /\ EngineFrame

\* worker_loop: "while (auto request = order_queue_.dequeue())"
ControlWorkerDrain(w) ==
    /\ ~engine.terminated
    /\ engine.workers[w] = "drain"
    /\ engine' = IF engine.pending > 0
                 THEN [engine EXCEPT !.pending = @ - 1,
                                     !.consumed[w] = @ + 1]
                 ELSE [engine EXCEPT !.workers[w] = "done"]
    /\ BookFrame /\ EngineFrame

ControlNext ==
    \/ \E t \in ControlThreads :
          \/ ControlStart(t)
          \/ ControlSpawn(t)
          \/ ControlAssign(t)
          \/ ControlStop(t)
          \/ ControlJoinable(t)
          \/ ControlJoin(t)
          \/ ControlSubmit(t)
    \/ \E w \in DOMAIN engine.workers :
          \/ ControlWorkerLoop(w)
          \/ ControlWorkerDrain(w)

SpecControl == ControlInit /\ [][ControlNext]_vars

\* the worker threads that are in worker_loop
LiveWorkers ==
    {w \in DOMAIN engine.workers : engine.workers[w] \in {"loop", "drain"}}

\* the step is the first statement of a call of op by some thread
CallStep(op) ==
    /\ engine'.calls = engine.calls + 1
    /\ \E t \in ControlThreads :
          engine'.th[t] # engine.th[t] /\ engine'.th[t].op = op

\* start() on a running engine raises the error and creates no worker;
\* stop() on a stopped engine returns and changes nothing
StartStopGuards ==
    [][/\ (CallStep("start") /\ engine.running_) =>
            /\ \E t \in ControlThreads :
                  /\ engine'.th[t].ret = "error"
                  /\ engine' = [engine EXCEPT !.calls = @ + 1,
                                               !.th[t] = engine'.th[t]]
       /\ (CallStep("stop") /\ ~engine.running_) =>
            /\ \E t \in ControlThreads :
                  /\ engine'.th[t].ret = "already stopped"
                  /\ engine' = [engine EXCEPT !.calls = @ + 1,
                                               !.th[t] = engine'.th[t]]]_vars

\* C38: however the calls of start() and stop() of several control threads
\* interleave, at most one worker thread is in worker_loop at any time and
\* the process is never terminated; start() on a running engine raises the
\* error and creates no worker; stop() on a stopped engine returns and
\* changes nothing.
C38_AtMostOneWorker ==
    /\ [](Cardinality(LiveWorkers) <= 1 /\ ~engine.terminated)
    /\ StartStopGuards


\* ============================================== the worker, once more
\* the step is the worker processing a modify_order with new_quantity = 0
\* or new_price <= 0 for an order that rests in the book of its symbol
InvalidModifyStep ==
    /\ engine'.processed = engine.processed + 1
    /\ engine'.w_req.type = "MODIFY_ORDER"
    /\ engine'.w_req.new_quantity = 0 \/ engine'.w_req.new_price <= 0
    /\ engine'.w_req.symbol_id \in engine.order_books_
    /\ engine'.w_req.order_id
         \in DOMAIN engine.books[engine'.w_req.symbol_id].order_map

\* C39: when the worker processes a modify_order with new_quantity = 0 or
\* new_price <= 0 for a resting order, the book is left as cancel_order of
\* that order leaves it, the order gone and nothing added or traded; the
\* book's modify_order returns the order with the new price and quantity,
\* not nullopt; and the engine adds one to modified_orders and changes no
\* other statistic, cancelled_orders included, and makes no callback.
C39_InvalidModifyRemoves ==
    [][InvalidModifyStep =>
         LET req == engine'.w_req
             B == engine.books[req.symbol_id]
             old_order == B.heap[B.order_map[req.order_id]]
             r == modify_order(B, req.order_id, req.new_price,
                               req.new_quantity)
         IN /\ req.order_id
                 \notin DOMAIN engine'.books[req.symbol_id].order_map
            /\ engine'.books[req.symbol_id]
                 = cancel_order(B, req.order_id).book
            /\ \A sym \in engine.order_books_ \ {req.symbol_id} :
                  engine'.books[sym] = engine.books[sym]
            /\ r.ret = "order"
            /\ r.order = [old_order EXCEPT !.price = req.new_price,
                                           !.quantity = req.new_quantity]
            /\ r.trades = <<>>
            /\ engine'.stats
                 = [engine.stats EXCEPT !.modified_orders = @ + 1]
            /\ engine'.callbacks = <<>>]_vars

\* an order was added, a modify_order with quantity 0 has removed it, and
\* it counts as modified and not as cancelled
C39_Witness ==
    /\ engine.processed = 2
    /\ engine.w_req.type = "MODIFY_ORDER"
    /\ engine.w_req.new_quantity = 0
    /\ engine.stats.total_orders = 1
    /\ engine.stats.rejected_orders = 0
    /\ engine.stats.modified_orders = 1
    /\ engine.stats.cancelled_orders = 0
    /\ \A sym \in engine.order_books_ :
         engine.books[sym].order_map = <<>>

\* ------------------------------------------------- the book: conservation
\* the remaining quantity of order id in B, 0 when it does not rest there
RemainingOf(B, id) ==
    IF id \in DOMAIN B.order_map THEN B.heap[B.order_map[id]].quantity ELSE 0

\* the remaining quantities of the orders that rest in B
RestingQuantity(B) ==
    SumFn([id \in DOMAIN B.order_map |-> RemainingOf(B, id)])

RECURSIVE QuantityOfQueue(_, _)
QuantityOfQueue(B, orders) ==
    IF orders = <<>> THEN 0
    ELSE B.heap[Head(orders)].quantity + QuantityOfQueue(B, Tail(orders))

\* the remaining quantities of the orders queued at the price levels of B
QueuedQuantity(B) ==
    SumFn([p \in DOMAIN B.buy_levels
             |-> QuantityOfQueue(B, B.buy_levels[p].orders)])
    + SumFn([p \in DOMAIN B.sell_levels
               |-> QuantityOfQueue(B, B.sell_levels[p].orders)])

\* the trades of add_order(B, o) each have a positive quantity and name o
\* and one order that rested in B on the other side; every order that
\* rested in B has lost exactly what the trades naming it took
TradesReduceBothSides(B, o, r) ==
    /\ \A i \in DOMAIN r.trades :
         LET trade == r.trades[i]
             passive == PassiveId(o, trade)
         IN /\ trade.quantity > 0
            /\ {trade.buy_order_id, trade.sell_order_id}
                 = {o.order_id, passive}
            /\ passive # o.order_id
            /\ passive \in DOMAIN B.order_map
            /\ B.heap[B.order_map[passive]].side # o.side
    /\ \A id \in DOMAIN B.order_map :
         RemainingOf(B, id) - RemainingOf(r.book, id)
           = Taken(o, r.trades, id)
    /\ r.exit = "matched" =>
         o.quantity - RemainingOf(r.book, o.order_id)
           = SumQuantity(r.trades)

\* C40: quantity is conserved by every operation of the book, and so by
\* every sequence of them: add_order brings in the quantity of the order when
\* it accepts it and nothing otherwise, and what it brings in plus what
\* rested equals what rests afterwards plus twice the quantities of its
\* trades; cancel_order takes out exactly the remaining quantity of the
\* order; modify_order takes out the remaining quantity of the old order and
\* adds the new one; clear takes out everything; the orders in the queues
\* are the orders that rest.  Every trade has a quantity above zero and
\* reduces the incoming order and one resting order of the other side by it.
C40_QuantityConserved ==
    /\ QueuedQuantity(Book) = RestingQuantity(Book)
    /\ \A o \in AddCalls :
         LET r == add_order(Book, o)
         IN /\ RestingQuantity(r.book) + 2 * SumQuantity(r.trades)
                 = RestingQuantity(Book)
                   + (IF r.exit = "matched" THEN o.quantity ELSE 0)
            /\ TradesReduceBothSides(Book, o, r)
    /\ \A id \in OrderIds :
         RestingQuantity(cancel_order(Book, id).book)
           = RestingQuantity(Book) - RemainingOf(Book, id)
    /\ \A id \in OrderIds, px \in PriceInputs, qty \in Quantities :
         LET r == modify_order(Book, id, px, qty)
             c == cancel_order(Book, id)
             accepted == /\ r.ret = "order"
                         /\ add_order(c.book, r.order).exit = "matched"
         IN /\ RestingQuantity(r.book) + 2 * SumQuantity(r.trades)
                 = RestingQuantity(c.book) + (IF accepted THEN qty ELSE 0)
            /\ r.ret = "order" =>
                 TradesReduceBothSides(c.book, r.order,
                     [book |-> r.book, trades |-> r.trades,
                      exit |-> add_order(c.book, r.order).exit])
    /\ RestingQuantity(clear(Book)) = 0

\* an order has traded with two resting orders and another order still rests
C40_Witness ==
    /\ last.op = "add"
    /\ last.ret = "matched"
    /\ Len(last.trades) = 2
    /\ last.trades[1].quantity + last.trades[2].quantity = 2
    /\ PassiveId([order_id |-> last.id], last.trades[1])
         # PassiveId([order_id |-> last.id], last.trades[2])
    /\ RestingQuantity(Book) > 0

====
